---- MODULE Spec2Model ----
(***************************************************************************)
(* A model of the code-generation core in src/src/compiler.ts: the static  *)
(* memory layout, the function table and trampolines, memoised element     *)
(* compilation, direct-call routing, the if-statement flow merge and the   *)
(* type post-processing of compileExpression.                              *)
(***************************************************************************)
EXTENDS Integers, Sequences, FiniteSets, TLC

(***************************************************************************)
(* Bounds of the model.                                                    *)
(***************************************************************************)
MaxSegments == 3
MaxTable == 3
MaxCalls == 3
MaxArgc == 3
MaxChecks == 1
MaxDepth == 8
\* executing IR: the repetitions of a loop and the values read in a run
MaxRepeats == 2
MaxReadings == 4

(***************************************************************************)
(* Generic helpers.                                                        *)
(***************************************************************************)
Max(a, b) == IF a >= b THEN a ELSE b

Range(s) == {s[i] : i \in 1..Len(s)}

RECURSIVE SumOver(_, _)
\* the sum of f over the set s
SumOver(s, f) ==
  IF s = {} THEN 0 ELSE LET x == CHOOSE y \in s : TRUE IN f[x] + SumOver(s \ {x}, f)

RECURSIVE NextPow2From(_, _)
NextPow2From(p, x) == IF p >= x THEN p ELSE NextPow2From(2 * p, x)

(***************************************************************************)
(* ======================= Static memory layout ========================== *)
(***************************************************************************)
VARIABLES
  memoryBase,       \* options.memoryBase
  isWasm64,         \* options.isWasm64
  hasGC,            \* program.hasGC
  memoryOffset,     \* Compiler.memoryOffset
  memorySegments,   \* Compiler.memorySegments: sequence of [offset, length]
  stringSegments,   \* Compiler.stringSegments: content -> index into memorySegments (0: absent)
  sealed,           \* compile() has aligned memoryOffset to the pointer size
  initialPages,     \* the initial page count compile() passed to module.setMemory
  segAlign,         \* history: the alignment requested for each segment
  offsetTrace,      \* history: memoryOffset before the last operation
  stringPtrs,       \* history: content -> set of pointers ensureStaticString returned
  stringCreated,    \* history: content -> number of segments created for it
  stringCalls       \* history: content -> ensureStaticString calls so far (counted up to 2)

memVars == <<memoryBase, isWasm64, hasGC, memoryOffset, memorySegments, stringSegments,
             sealed, initialPages, segAlign, offsetTrace, stringPtrs, stringCreated,
             stringCalls>>

(***************************************************************************)
(* ====================== The compiler's state =========================== *)
(***************************************************************************)
VARIABLES
  noTreeShaking,          \* options.noTreeShaking
  mutableGlobal,          \* options.hasFeature(Feature.MUTABLE_GLOBAL)
  mainFunction,           \* program.mainFunction is set: the program has a user main
  flags,                  \* element -> flags set while compiling (COMPILED, MODULE_IMPORT, ...)
  globalType,             \* Global.type ("void": not yet resolved)
  constantIntegerValue,   \* Global.constantIntegerValue of an inlined global
  moduleGlobals,          \* name -> number of module.addGlobal calls for it
  moduleGlobalMutable,    \* name -> the mutability it was added with
  moduleGlobalInit,       \* name -> the value of the constant initializer it was added with
  moduleGlobalImports,    \* name -> number of module.addGlobalImport calls for it
  moduleFunctions,        \* name -> number of module.addFunction calls for it
  moduleFunctionImports,  \* name -> number of module.addFunctionImport calls for it
  moduleFunctionBody,     \* trampoline name -> the body it was added with
  startFunctionBody,      \* Compiler.startFunctionBody
  startOrigins,           \* history: the source statement each entry of it comes from
  lowererCalls,           \* history: what compileSource called for each top-level statement
  functionTable,          \* Compiler.functionTable
  functionTableIndex,     \* Function.functionTableIndex
  trampoline,             \* Function.trampoline is set
  argcVar,                \* Compiler.argcVar is set
  argcSet,                \* Compiler.argcSet is set
  moduleFunctionExports,  \* internal names of the functions the module exports
  moduleStart,            \* the function module.setStart was called with ("": none)
  diagnostics,            \* code -> number of diagnostics emitted with it
  lastOp,                 \* history: the last operation called and its arguments
  lastExpr,               \* history: the expression the last makeCallDirect returned
  tableReturns,           \* history: function -> indexes ensureFunctionTableEntry returned
  compileCalls            \* history: number of compileX calls made from outside so far

compilerVars == <<noTreeShaking, mutableGlobal, mainFunction, flags, globalType, constantIntegerValue,
                  moduleGlobals,
                  moduleGlobalMutable, moduleGlobalInit, moduleGlobalImports, moduleFunctions,
                  moduleFunctionImports, moduleFunctionBody, startFunctionBody, startOrigins,
                  lowererCalls, functionTable,
                  functionTableIndex,
                  trampoline, argcVar, argcSet, moduleFunctionExports, moduleStart,
                  diagnostics, lastOp, lastExpr, tableReturns, compileCalls>>

(***************************************************************************)
(* ============ The current function's flow and current type ============= *)
(***************************************************************************)
VARIABLES
  flow,             \* currentFunction.flow: its flags and whether it has a breakLabel
  genericContext,   \* currentFunction.isAny(GENERIC | GENERIC_CONTEXT)
  lastIf,           \* history: the last if statement, the flags before it and of its arms
  currentType,      \* Compiler.currentType
  lastCompile       \* history: the last compileExpression call and what it did

\* what was observed of the operations that are called on their own
VARIABLES
  lastRun,          \* history: the last execution of a trampoline and what it did
  lastCheck,        \* history: the last call checked by checkCallSignature and its outcome
  lastLowering      \* history: the last lowering routine called on its own, its inputs and
                    \* what it returned

observedVars == <<lastRun, lastCheck, lastLowering>>

\* the compilation of a program step by step: compileSource, compileFunction and
\* compileCallInlineUnchecked call each other, one frame of callStack per call in progress
VARIABLES
  unit,                    \* the program: imports of a source, calls of a source or function,
                           \* and the functions decorated @inline
  compileStarted,                 \* compile() has been called
  callStack,               \* the calls in progress: [op, target, pc, saved], innermost last
  compiledFlag,            \* the sources and functions that have COMPILED set
  currentInlineFunctions,  \* Compiler.currentInlineFunctions
  loweredTimes,                 \* history: name -> times compileSource / compileFunction lowered
                           \* its statements
  inlinedTimes,                 \* history: function -> times its body was lowered inline
  inlineWarnings,          \* number of Function_0_cannot_be_inlined_into_itself warnings
  lastCall,                \* history: the last call compileCallDirect compiled
  lastInlineReturn         \* history: currentInlineFunctions before and after the last
                           \* inlined call

cycleVars == <<unit, compileStarted, callStack, compiledFlag, currentInlineFunctions, loweredTimes,
               inlinedTimes, inlineWarnings, lastCall, lastInlineReturn>>

traceVars == <<observedVars, cycleVars>>

analysisVars == <<flow, genericContext, lastIf, currentType, lastCompile, traceVars>>

\* option values and inputs the operations are called with
MemoryBases == {0, 20, 65530}
Alignments == {1, 4, 16}
BufferLengths == {0, 3}
Strings == {<<>>, <<1>>, <<2>>}
ElementSizes == {1, 8}
ArrayLengths == {3}
ArgumentValues == <<5, 7>>

\* program.gcHeaderSize, and the aligned header sizes of String, ArrayBuffer and Array
gcHeaderSize == 16
stringHeaderSize == 4
bufferHeaderSize == 8
arrayHeaderSize == 8

\* setMemory has not been called
NoPages == -1

\* the size of a page of memory
pageSize == 65536

\* i64_align(value, alignment): value rounded up to a multiple of alignment
i64_align(value, alignment) == ((value + alignment - 1) \div alignment) * alignment

\* 1 << (32 - clz(x - 1)): the power of two at or above x
clzPow2(x) == NextPow2From(1, x)

\* options.usizeType.byteSize
usizeByteSize == IF isWasm64 THEN 8 ELSE 4

\* the memory part of the compiler state as a value
MemState == [memoryOffset |-> memoryOffset, memorySegments |-> memorySegments,
             segAlign |-> segAlign, stringSegments |-> stringSegments]

\* Compiler.constructor: memoryOffset = max(options.memoryBase, 8)
constructorMemoryOffset(base) == Max(base, 8)

\* bug variant: the new offset drops the aligned start
addMemorySegment_dropStart(m, bufLen, alignment) ==
  LET start == i64_align(m.memoryOffset, alignment)
  IN [m EXCEPT !.memoryOffset = bufLen,
               !.memorySegments = Append(@, [offset |-> start, length |-> bufLen]),
               !.segAlign = Append(@, alignment)]

\* bug variant: the segment is placed at the unaligned offset
addMemorySegment_noAlign(m, bufLen, alignment) ==
  [m EXCEPT !.memoryOffset = m.memoryOffset + bufLen,
            !.memorySegments = Append(@, [offset |-> m.memoryOffset, length |-> bufLen]),
            !.segAlign = Append(@, alignment)]

\* addMemorySegment(buffer, alignment)
addMemorySegment(m, bufLen, alignment) ==
  LET start == i64_align(m.memoryOffset, alignment)
  IN [m EXCEPT !.memoryOffset = start + bufLen,
               !.memorySegments = Append(@, [offset |-> start, length |-> bufLen]),
               !.segAlign = Append(@, alignment)]

\* the length of the buffer ensureStaticString builds for a string
stringBufferLength(s) ==
  LET totalSize == stringHeaderSize + Len(s) * 2
  IN IF hasGC THEN gcHeaderSize + totalSize ELSE totalSize

\* the pointer ensureStaticString returns for a segment
stringPointer(segment) == IF hasGC THEN segment.offset + gcHeaderSize ELSE segment.offset

\* the memory state the constructor leaves
MemoryConstructed ==
  /\ memoryOffset = constructorMemoryOffset(memoryBase)
  /\ memorySegments = <<>>
  /\ stringSegments = [s \in Strings |-> 0]
  /\ sealed = FALSE
  /\ initialPages = NoPages
  /\ segAlign = <<>>
  /\ offsetTrace = constructorMemoryOffset(memoryBase)
  /\ stringPtrs = [s \in Strings |-> {}]
  /\ stringCreated = [s \in Strings |-> 0]
  /\ stringCalls = [s \in Strings |-> 0]

CommitMem(m) ==
  /\ memoryOffset' = m.memoryOffset
  /\ memorySegments' = m.memorySegments
  /\ segAlign' = m.segAlign
  /\ stringSegments' = m.stringSegments
  /\ offsetTrace' = memoryOffset

\* a direct addMemorySegment call (builtins, static data) before memory is sealed
AddMemorySegment ==
  /\ ~sealed
  /\ Len(memorySegments) < MaxSegments
  /\ \E bufLen \in BufferLengths, alignment \in Alignments :
       CommitMem(addMemorySegment(MemState, bufLen, alignment))
  /\ UNCHANGED <<memoryBase, isWasm64, hasGC, sealed, initialPages, stringPtrs, stringCreated,
                 stringCalls>>
  /\ UNCHANGED <<compilerVars, analysisVars>>

\* bug variant: the created segment is not remembered
ensureStaticString_forget(m, s) ==
  LET added == addMemorySegment(m, stringBufferLength(s), 8)
  IN [m |-> added,
      ptr |-> stringPointer(added.memorySegments[Len(added.memorySegments)])]

\* ensureStaticString(stringValue): the state after the call and the pointer it returns
ensureStaticString(m, s) ==
  IF m.stringSegments[s] # 0
  THEN [m |-> m, ptr |-> stringPointer(m.memorySegments[m.stringSegments[s]])]
  ELSE LET added == addMemorySegment(m, stringBufferLength(s), 8)
           index == Len(added.memorySegments)
       IN [m |-> [added EXCEPT !.stringSegments[s] = index],
           ptr |-> stringPointer(added.memorySegments[index])]

EnsureStaticString ==
  /\ ~sealed
  /\ \E s \in Strings :
       LET r == ensureStaticString(MemState, s)
           created == Len(r.m.memorySegments) - Len(memorySegments)
       IN /\ Len(r.m.memorySegments) <= MaxSegments
          /\ CommitMem(r.m)
          /\ stringPtrs' = [stringPtrs EXCEPT ![s] = @ \cup {r.ptr}]
          /\ stringCreated' = [stringCreated EXCEPT ![s] = @ + created]
          /\ stringCalls' = [stringCalls EXCEPT ![s] = IF @ < 2 THEN @ + 1 ELSE @]
  /\ UNCHANGED <<memoryBase, isWasm64, hasGC, sealed, initialPages>>
  /\ UNCHANGED <<compilerVars, analysisVars>>

\* ensureStaticArray(elementType, values): the backing buffer, then the Array header
ensureStaticArray(m, byteSize, length) ==
  LET byteLength == length * byteSize
      bufferTotalSize == clzPow2(bufferHeaderSize + byteLength)
      bufLen1 == IF hasGC THEN gcHeaderSize + bufferTotalSize ELSE bufferTotalSize
      bufLen2 == IF hasGC THEN gcHeaderSize + arrayHeaderSize ELSE arrayHeaderSize
  IN addMemorySegment(addMemorySegment(m, bufLen1, 8), bufLen2, 8)

EnsureStaticArray ==
  /\ ~sealed
  /\ Len(memorySegments) + 2 <= MaxSegments
  /\ \E byteSize \in ElementSizes, length \in ArrayLengths :
       CommitMem(ensureStaticArray(MemState, byteSize, length))
  /\ UNCHANGED <<memoryBase, isWasm64, hasGC, sealed, initialPages, stringPtrs, stringCreated,
                 stringCalls>>
  /\ UNCHANGED <<compilerVars, analysisVars>>

\* bug variant: the pages that hold the offset, rounded down
numPages_floor(segments, offset) == IF Len(segments) # 0 THEN offset \div pageSize ELSE 0

\* compile(): the initial page count, from the aligned memoryOffset
numPages(segments, offset) ==
  IF Len(segments) # 0 THEN i64_align(offset, pageSize) \div pageSize ELSE 0

\* compile(): memoryOffset = i64_align(memoryOffset, options.usizeType.byteSize), then
\* setMemory with the initial page count
SetUpMemory ==
  /\ sealed' = TRUE
  /\ memoryOffset' = i64_align(memoryOffset, usizeByteSize)
  /\ initialPages' = numPages(memorySegments, memoryOffset')
  /\ offsetTrace' = memoryOffset
  /\ UNCHANGED <<memoryBase, isWasm64, hasGC, memorySegments, stringSegments, segAlign,
                 stringPtrs, stringCreated, stringCalls>>

\* compile() sets up the static memory
SealMemory ==
  /\ ~sealed
  /\ SetUpMemory
  /\ UNCHANGED <<compilerVars, analysisVars>>

(***************************************************************************)
(* ============== The program being compiled (the inputs) ================ *)
(* Expressions are reduced to the node kinds whose lowering reaches the    *)
(* operations modelled here: literals, a binary operation on two           *)
(* expressions, a direct call, and identifiers naming a global or a        *)
(* function.                                                               *)
(***************************************************************************)
NoExpr == [kind |-> "NONE", value |-> 0, target |-> "", args |-> <<>>]
Lit(v) == [kind |-> "LITERAL", value |-> v, target |-> "", args |-> <<>>]
StrLit(ch) == [kind |-> "LITERAL", value |-> ch, target |-> "string", args |-> <<>>]
TrueE == [kind |-> "TRUE", value |-> 1, target |-> "", args |-> <<>>]
Binary(l, r) == [kind |-> "BINARY", value |-> 0, target |-> "", args |-> <<l, r>>]
CallE(f, as) == [kind |-> "CALL", value |-> 0, target |-> f, args |-> as]
GlobalRef(g) == [kind |-> "IDENTIFIER", value |-> 0, target |-> g, args |-> <<>>]
FunctionRef(f) == [kind |-> "IDENTIFIER", value |-> 1, target |-> f, args |-> <<>>]

FunctionNames == {"f", "g", "m", "imp", "h", "main", "ctor"}

\* "<internalName>|trampoline"
TrampolineName(f) ==
  CASE f = "f" -> "f|trampoline"
    [] f = "g" -> "g|trampoline"
    [] f = "m" -> "m|trampoline"
    [] f = "imp" -> "imp|trampoline"
    [] f = "h" -> "h|trampoline"
    [] f = "main" -> "main|trampoline"
    [] f = "ctor" -> "ctor|trampoline"

TrampolineNames == {TrampolineName(f) : f \in FunctionNames}

\* the function a trampoline forwards to
OriginalOf(t) == CHOOSE f \in FunctionNames : TrampolineName(f) = t

\* the declared functions:
\*   function f(a: i32, b: i32 = 2) {}          function g(a: i32, b: i32 = h()): i32 { g(5) }
\*   class K { m(a: i32 = 1, b: i32 = G1) { "s" }  constructor(a: i32) { return ... } }
\*   declare function imp(a: i32, b?: i32): i32  function h(): i32 { return 1 }
\*   function main() { G1; h }
\* (body: the expressions its statements lower; flowReturns: its flow ends with RETURNS)
FunctionDecl(f) ==
  CASE f = "f" -> [flags |-> {}, parameters |-> <<NoExpr, Lit(2)>>, requiredParameters |-> 1,
                   hasBody |-> TRUE, body |-> <<>>,
                   returnType |-> "void", flowReturns |-> FALSE]
    [] f = "g" -> [flags |-> {}, parameters |-> <<NoExpr, CallE("h", <<>>)>>,
                   requiredParameters |-> 1,
                   hasBody |-> TRUE, body |-> <<CallE("g", <<Lit(5)>>)>>,
                   returnType |-> "i32", flowReturns |-> FALSE]
    [] f = "m" -> [flags |-> {"INSTANCE"}, parameters |-> <<Lit(1), GlobalRef("G1")>>,
                   requiredParameters |-> 0,
                   hasBody |-> TRUE, body |-> <<StrLit(1)>>,
                   returnType |-> "void", flowReturns |-> FALSE]
    [] f = "imp" -> [flags |-> {"AMBIENT"}, parameters |-> <<NoExpr, NoExpr>>,
                     requiredParameters |-> 1,
                     hasBody |-> FALSE, body |-> <<>>,
                     returnType |-> "i32", flowReturns |-> FALSE]
    [] f = "h" -> [flags |-> {}, parameters |-> <<>>, requiredParameters |-> 0,
                   hasBody |-> TRUE, body |-> <<>>,
                   returnType |-> "i32", flowReturns |-> TRUE]
    [] f = "main" -> [flags |-> {"MAIN"}, parameters |-> <<>>, requiredParameters |-> 0,
                      hasBody |-> TRUE, body |-> <<GlobalRef("G1"), FunctionRef("h")>>,
                      returnType |-> "void", flowReturns |-> FALSE]
    [] f = "ctor" -> [flags |-> {"INSTANCE", "CONSTRUCTOR"}, parameters |-> <<NoExpr>>,
                      requiredParameters |-> 1,
                      hasBody |-> TRUE, body |-> <<>>,
                      returnType |-> "i32", flowReturns |-> TRUE]

\* a trampoline shares the prototype of its original; its signature requires every parameter
Decl(fn) ==
  IF fn \in TrampolineNames
  THEN [FunctionDecl(OriginalOf(fn)) EXCEPT
          !.requiredParameters = Len(FunctionDecl(OriginalOf(fn)).parameters)]
  ELSE FunctionDecl(fn)

GlobalNames == {"G1", "G2", "G3", "G4", "G5", "G6", "G7"}

\* the declared globals:
\*   var G1: i32 = 1          const G2: i32 = h()      @inline const G3 = 1 + 2
\*   declare const G4: i32    var G5                   class K { static readonly G6: i32 = G2 }
\*   class P { static readonly G7: i32 = 1 }
GlobalDecl(g) ==
  CASE g = "G1" -> [flags |-> {}, decorators |-> {}, typeNode |-> "i32", initializer |-> Lit(1)]
    [] g = "G2" -> [flags |-> {"CONST"}, decorators |-> {}, typeNode |-> "i32",
                    initializer |-> CallE("h", <<>>)]
    [] g = "G3" -> [flags |-> {"CONST"}, decorators |-> {"INLINE"}, typeNode |-> "none",
                    initializer |-> Binary(Lit(1), Lit(2))]
    [] g = "G4" -> [flags |-> {"CONST", "AMBIENT"}, decorators |-> {}, typeNode |-> "i32",
                    initializer |-> NoExpr]
    [] g = "G5" -> [flags |-> {}, decorators |-> {}, typeNode |-> "none",
                    initializer |-> NoExpr]
    [] g = "G6" -> [flags |-> {"STATIC", "READONLY"}, decorators |-> {}, typeNode |-> "i32",
                    initializer |-> GlobalRef("G2")]
    [] g = "G7" -> [flags |-> {"STATIC", "READONLY"}, decorators |-> {}, typeNode |-> "i32",
                    initializer |-> Lit(1)]

EnumValueRef(v) == [kind |-> "IDENTIFIER", value |-> 2, target |-> v, args |-> <<>>]
\* <enum>.<member>
PropertyAccess(v) == [kind |-> "PROPERTYACCESS", value |-> 2, target |-> v, args |-> <<>>]

EnumNames == {"E", "M"}
EnumValueNames == {"E.A", "E.B", "E.C", "M.X", "M.Y"}

\* the declared enums:
\*   const enum E { A, B, C = A + B }       enum M { X = h(), Y }
EnumDecl(e) ==
  CASE e = "E" -> [flags |-> {"CONST"},
                   members |-> <<[name |-> "E.A", value |-> NoExpr],
                                 [name |-> "E.B", value |-> NoExpr],
                                 [name |-> "E.C",
                                  value |-> Binary(EnumValueRef("E.A"), EnumValueRef("E.B"))]>>]
    [] e = "M" -> [flags |-> {},
                   members |-> <<[name |-> "M.X", value |-> CallE("h", <<>>)],
                                 [name |-> "M.Y", value |-> NoExpr]>>]

\* EnumValue.parent
parentOf(v) == CHOOSE e \in EnumNames : \E member \in Range(EnumDecl(e).members) : member.name = v

\* EnumValue.constantValue: the compiler reads it and never assigns it
constantValue(v) == 0

ClassNames == {"K"}
FieldNames == {"K.x"}

\* class K: its static members, its constructor and its instance members, in declaration order
ClassDecl(k) ==
  [staticMembers |-> <<[kind |-> "GLOBAL", name |-> "G6"]>>,
   constructorInstance |-> "ctor",
   members |-> <<[kind |-> "FUNCTION_PROTOTYPE", name |-> "m"],
                 [kind |-> "FIELD", name |-> "K.x"]>>]

SourceNames == {"entry", "lib"}

Stmt(kind, target, export) ==
  [kind |-> kind, target |-> target, export |-> export, expression |-> NoExpr,
   isGeneric |-> FALSE, members |-> <<>>]
ExprStmt(e) == [Stmt("EXPRESSION", "", FALSE) EXCEPT !.expression = e]
\* a class or function declaration with type parameters
GenericStmt(kind, target, export) == [Stmt(kind, target, export) EXCEPT !.isGeneric = TRUE]
\* namespace <target> { <members> }
NamespaceStmt(target, export, members) ==
  [Stmt("NAMESPACEDECLARATION", target, export) EXCEPT !.members = members]
\* export { <members> }   and   export { <members> } from "<path>"   ("": no path)
ExportStmt(path, members) == [Stmt("EXPORT", path, FALSE) EXCEPT !.members = members]

\* the sources and their top-level statements
SourceDecl(src) ==
  CASE src = "entry" ->
         [isEntry |-> TRUE,
          statements |-> <<Stmt("IMPORT", "lib", FALSE),
                           Stmt("FUNCTIONDECLARATION", "f", TRUE),
                           Stmt("FUNCTIONDECLARATION", "h", FALSE),
                           Stmt("ENUMDECLARATION", "E", TRUE),
                           Stmt("CLASSDECLARATION", "K", FALSE),
                           Stmt("VARIABLE", "G1", FALSE),
                           Stmt("VARIABLE", "G2", FALSE),
                           ExprStmt(CallE("g", <<Lit(5), Lit(7)>>)),
                           Stmt("FUNCTIONDECLARATION", "main", TRUE),
                           GenericStmt("FUNCTIONDECLARATION", "gen", TRUE),
                           Stmt("INTERFACEDECLARATION", "I", TRUE),
                           NamespaceStmt("N", TRUE,
                             <<Stmt("VARIABLE", "G4", TRUE),
                               GenericStmt("FUNCTIONDECLARATION", "N.gen", TRUE),
                               Stmt("FUNCTIONDECLARATION", "g", FALSE)>>),
                           ExportStmt("", <<"h">>)>>]
    [] src = "lib" ->
         [isEntry |-> FALSE,
          statements |-> <<Stmt("IMPORT", "entry", FALSE),
                           Stmt("IMPORT", "missing", FALSE),
                           Stmt("ENUMDECLARATION", "M", TRUE),
                           Stmt("VARIABLE", "G5", FALSE),
                           Stmt("VARIABLE", "G3", FALSE),
                           Stmt("FUNCTIONDECLARATION", "imp", TRUE),
                           GenericStmt("CLASSDECLARATION", "Box", TRUE),
                           NamespaceStmt("L", TRUE,
                             <<GenericStmt("FUNCTIONDECLARATION", "L.gen", TRUE)>>),
                           ExportStmt("", <<"imp", "G5">>)>>]

\* the place of a top-level statement in the program text
Position(src, index) == [source |-> src, index |-> index]
Positions ==
  UNION {{Position(src, i) : i \in 1..Len(SourceDecl(src).statements)} : src \in SourceNames}
StatementAt(src, statement) ==
  Position(src, CHOOSE i \in 1..Len(SourceDecl(src).statements) :
                  SourceDecl(src).statements[i] = statement)

\* the top-level statement that declares a global, an enum value or a static field
DeclaredAt(name) ==
  LET declares(pos) ==
        LET st == SourceDecl(pos.source).statements[pos.index]
        IN \/ st.kind = "VARIABLE" /\ st.target = name
           \/ /\ st.kind = "ENUMDECLARATION"
              /\ \E m \in Range(EnumDecl(st.target).members) : m.name = name
           \/ /\ st.kind = "CLASSDECLARATION"
              /\ \E m \in Range(ClassDecl(st.target).staticMembers) : m.name = name
           \/ /\ st.kind = "NAMESPACEDECLARATION"
              /\ \E m \in Range(st.members) : m.kind = "VARIABLE" /\ m.target = name
  IN IF \E pos \in Positions : declares(pos)
     THEN CHOOSE pos \in Positions : declares(pos)
     ELSE Position("", 0)

\* every program element that carries flags
Elements ==
  FunctionNames \cup TrampolineNames \cup GlobalNames \cup EnumNames \cup EnumValueNames
    \cup ClassNames \cup FieldNames \cup SourceNames

\* names of the globals and functions the module can hold
ModuleGlobalNames == GlobalNames \cup EnumValueNames \cup {"~started", "~argc"}
ModuleFunctionNames == FunctionNames \cup TrampolineNames \cup {"start", "~setargc"}

DiagnosticCodes ==
  {"Type_expected", "Type_0_is_not_assignable_to_type_1", "Operation_not_supported",
   "Compiling_constant_with_non_constant_initializer_as_mutable",
   "In_const_enum_declarations_member_initializer_must_be_constant_expression",
   "Enum_member_must_have_initializer",
   "A_member_initializer_in_a_enum_declaration_cannot_reference_members_declared_after_it",
   "An_implementation_cannot_be_declared_in_ambient_contexts",
   "Function_implementation_is_missing", "A_function_must_return_a_value",
   "Optional_parameter_must_have_an_initializer",
   "Expected_0_arguments_but_got_1", "Expected_at_least_0_arguments_but_got_1",
   "File_0_not_found",
   "A_break_statement_can_only_be_used_within_an_enclosing_iteration_or_switch_statement"}

(***************************************************************************)
(* The compiler state as a value.                                          *)
(***************************************************************************)
\* the compiler state as a value: what the operations below take and return
Cur ==
  [memoryOffset |-> memoryOffset, memorySegments |-> memorySegments, segAlign |-> segAlign,
   stringSegments |-> stringSegments, flags |-> flags, globalType |-> globalType,
   constantIntegerValue |-> constantIntegerValue,
   moduleGlobals |-> moduleGlobals, moduleGlobalMutable |-> moduleGlobalMutable,
   moduleGlobalInit |-> moduleGlobalInit,
   moduleGlobalImports |-> moduleGlobalImports, moduleFunctions |-> moduleFunctions,
   moduleFunctionImports |-> moduleFunctionImports, moduleFunctionBody |-> moduleFunctionBody,
   startFunctionBody |-> startFunctionBody, startOrigins |-> startOrigins,
   lowererCalls |-> lowererCalls,
   functionTable |-> functionTable, functionTableIndex |-> functionTableIndex,
   trampoline |-> trampoline, argcVar |-> argcVar, argcSet |-> argcSet,
   moduleFunctionExports |-> moduleFunctionExports, moduleStart |-> moduleStart,
   diagnostics |-> diagnostics]

\* Element.set(flag)
Set(c, element, flag) == [c EXCEPT !.flags[element] = @ \cup {flag}]

\* DiagnosticEmitter.error / warning
error(c, code) == [c EXCEPT !.diagnostics[code] = @ + 1]

\* module.addGlobal(name, type, mutable, initializer)
addGlobal(c, name, mutable, initializer) ==
  [c EXCEPT !.moduleGlobals[name] = @ + 1, !.moduleGlobalMutable[name] = mutable,
            !.moduleGlobalInit[name] = initializer.value]

\* module.addGlobalImport(name, ...)
addGlobalImport(c, name) == [c EXCEPT !.moduleGlobalImports[name] = @ + 1]

\* module.addFunction(name, ...)
addFunction(c, name) == [c EXCEPT !.moduleFunctions[name] = @ + 1]

\* module.addFunctionImport(name, ...)
addFunctionImport(c, name) == [c EXCEPT !.moduleFunctionImports[name] = @ + 1]

(***************************************************************************)
(* The IR expressions the operations return, as far as the claims read     *)
(* them: the node id, a constant's value, a call's target and operands,    *)
(* the value a trampoline block stores in ~argc, the expression's type,    *)
(* and whether module.precomputeExpression folds it to a constant.         *)
(***************************************************************************)
Expr(id, value, target, operands, argc, type, foldable) ==
  [id |-> id, value |-> value, target |-> target, operands |-> operands, argc |-> argc,
   type |-> type, foldable |-> foldable]
createI32(v) == Expr("Const", v, "", <<>>, -1, "i32", TRUE)
createUnreachable == Expr("Unreachable", 0, "", <<>>, -1, "void", FALSE)
createGetLocal(index) == Expr("GetLocal", index, "", <<>>, -1, "i32", FALSE)
\* get_global(name); it folds to the initializer of an immutable global of the module
createGetGlobal(c, name) ==
  LET immutable == c.moduleGlobals[name] > 0 /\ ~c.moduleGlobalMutable[name]
  IN Expr("GetGlobal", IF immutable THEN c.moduleGlobalInit[name] ELSE 0, name, <<>>, -1,
          "i32", immutable)
\* an addition; value: what it folds to when both sides are constants
createBinary(l, r) ==
  Expr("Binary", l.value + r.value, "", <<l, r>>, -1, "i32", l.foldable /\ r.foldable)
createCall(target, operands, type) == Expr("Call", 0, target, operands, -1, type, FALSE)
createCallImport(target, operands, type) ==
  Expr("CallImport", 0, target, operands, -1, type, FALSE)
\* block { set_global(~argc, argc); call(target, operands) }
createArgcBlock(argc, target, operands, type) ==
  Expr("Block", 0, target, operands, argc, type, FALSE)
createSetGlobal(name, x) == Expr("SetGlobal", 0, name, <<x>>, -1, "void", FALSE)

\* module.precomputeExpression yields a constant
precomputesToConst(x) == x.foldable

(***************************************************************************)
(* ======================== The operations =============================== *)
(* Each takes the compiler state c and returns the state after the call    *)
(* together with what the call returns.                                    *)
(***************************************************************************)
\* Call(c, op, args): the operation op applied to state c and arguments args; the
\* operations below call each other through it (its definition follows them)
RECURSIVE Call(_, _, _)
RECURSIVE compileOperands(_, _, _, _)
RECURSIVE compileStatements(_, _, _)
RECURSIVE compileInitializers(_, _, _, _)
RECURSIVE compileTrampolineInitializers(_, _, _)

\* nodeIsConstantValue(kind)
nodeIsConstantValue(kind) == kind \in {"LITERAL", "NULL", "TRUE", "FALSE"}

\* Signature: arguments exclude `this`, operands include it
maxArguments(fn) == Len(Decl(fn).parameters)
minArguments(fn) == Decl(fn).requiredParameters
isInstance(fn) == "INSTANCE" \in Decl(fn).flags
minOperands(fn) == IF isInstance(fn) THEN minArguments(fn) + 1 ELSE minArguments(fn)
maxOperands(fn) == IF isInstance(fn) THEN maxArguments(fn) + 1 ELSE maxArguments(fn)

\* ensureArgcVar(): adds the ~argc global once
ensureArgcVar(c) ==
  IF c.argcVar THEN c ELSE [addGlobal(c, "~argc", TRUE, createI32(0)) EXCEPT !.argcVar = TRUE]

\* Bind(r, K): K applied to the result r of a call; r is computed first, and once
Bind(r, K(_)) == CHOOSE result \in {K(v) : v \in {r}} : TRUE

\* compileIdentifierExpression, case GLOBAL
compileGlobalIdentifier(c, g) ==
  Bind(Call(c, "compileGlobal", <<g>>), LAMBDA r :
    IF ~r.ok THEN [c |-> r.c, x |-> createUnreachable]
    ELSE IF "INLINED" \in r.c.flags[g]
         THEN [c |-> r.c, x |-> createI32(r.c.constantIntegerValue[g])]
    ELSE [c |-> r.c, x |-> createGetGlobal(r.c, g)])

\* compileIdentifierExpression, case ENUMVALUE
compileEnumValueIdentifier(c, v) ==
  IF "COMPILED" \notin c.flags[v]
  THEN [c |-> error(c, "A_member_initializer_in_a_enum_declaration_cannot_reference_members_declared_after_it"),
        x |-> [createUnreachable EXCEPT !.type = "i32"]]
  ELSE IF "INLINED" \in c.flags[v] THEN [c |-> c, x |-> createI32(constantValue(v))]
  ELSE [c |-> c, x |-> createGetGlobal(c, v)]

\* compilePropertyAccessExpression, case ENUMVALUE
compileEnumValuePropertyAccess(c, v) ==
  Bind(Call(c, "compileEnum", <<parentOf(v)>>), LAMBDA r :
    IF ~r.ok THEN [c |-> r.c, x |-> [createUnreachable EXCEPT !.type = "i32"]]
    ELSE IF "INLINED" \in r.c.flags[v] THEN [c |-> r.c, x |-> createI32(constantValue(v))]
    ELSE [c |-> r.c, x |-> createGetGlobal(r.c, v)])

\* compileIdentifierExpression, case FUNCTION_PROTOTYPE
compileFunctionIdentifier(c, fn) ==
  Bind(Call(c, "compileFunction", <<fn>>), LAMBDA compiled :
    IF ~compiled.ok THEN [c |-> compiled.c, x |-> createUnreachable]
    ELSE Bind(Call(compiled.c, "ensureFunctionTableEntry", <<fn>>), LAMBDA entry :
           [c |-> entry.c, x |-> createI32(entry.index)]))

\* compileExpression: the lowering of one expression node
compileExpression(c, e) ==
  CASE e.kind = "LITERAL" /\ e.target = "string" ->
         Bind(ensureStaticString(c, <<e.value>>), LAMBDA r :
           [c |-> r.m, x |-> createI32(r.ptr)])
    [] e.kind = "LITERAL" /\ e.target # "string" -> [c |-> c, x |-> createI32(e.value)]
    [] e.kind = "TRUE" -> [c |-> c, x |-> createI32(1)]
    [] e.kind = "BINARY" ->
         Bind(Call(c, "compileExpression", <<e.args[1]>>), LAMBDA l :
           Bind(Call(l.c, "compileExpression", <<e.args[2]>>), LAMBDA r :
             [c |-> r.c, x |-> createBinary(l.x, r.x)]))
    [] e.kind = "CALL" -> Call(c, "compileCallDirect", <<e.target, e.args, e.value = 1>>)
    [] e.kind = "IDENTIFIER" /\ e.value = 0 -> compileGlobalIdentifier(c, e.target)
    [] e.kind = "IDENTIFIER" /\ e.value = 1 -> compileFunctionIdentifier(c, e.target)
    [] e.kind = "IDENTIFIER" /\ e.value = 2 -> compileEnumValueIdentifier(c, e.target)
    [] e.kind = "PROPERTYACCESS" -> compileEnumValuePropertyAccess(c, e.target)

\* the argument loop of compileCallDirect
compileOperands(c, args, i, acc) ==
  IF i > Len(args) THEN [c |-> c, xs |-> acc]
  ELSE Bind(Call(c, "compileExpression", <<args[i]>>), LAMBDA r :
         compileOperands(r.c, args, i + 1, Append(acc, r.x)))

\* compileStatements: the statements of a body, in order
compileStatements(c, stmts, i) ==
  IF i > Len(stmts) THEN c
  ELSE Bind(Call(c, "compileExpression", <<stmts[i]>>), LAMBDA r :
         compileStatements(r.c, stmts, i + 1))

\* a signature as checkCallSignature reads it: thisType (whether it has one), hasRest,
\* requiredParameters and parameterTypes (their number)
Signature(thisType, hasRest, requiredParameters, parameterTypes) ==
  [thisType |-> thisType, hasRest |-> hasRest, requiredParameters |-> requiredParameters,
   parameterTypes |-> parameterTypes]

\* instance.signature
signatureOf(fn) == Signature(isInstance(fn), FALSE, minArguments(fn), maxArguments(fn))

\* bug variant: too many arguments are let through
checkCallSignature_noMaximum(signature, numArguments, hasThis) ==
  IF hasThis # signature.thisType THEN <<"Operation_not_supported">>
  ELSE IF signature.hasRest THEN <<"Operation_not_supported">>
  ELSE IF numArguments < signature.requiredParameters
       THEN <<"Expected_at_least_0_arguments_but_got_1">>
  ELSE <<>>

\* checkCallSignature: the diagnostics it reports, none if the call is well-formed (it
\* returns true exactly then)
checkCallSignature(signature, numArguments, hasThis) ==
  IF hasThis # signature.thisType THEN <<"Operation_not_supported">>
  ELSE IF signature.hasRest THEN <<"Operation_not_supported">>
  ELSE IF numArguments < signature.requiredParameters
       THEN (IF signature.requiredParameters < signature.parameterTypes
             THEN <<"Expected_at_least_0_arguments_but_got_1">>
             ELSE <<"Expected_0_arguments_but_got_1">>)
  ELSE IF numArguments > signature.parameterTypes /\ ~signature.hasRest
       THEN <<"Expected_0_arguments_but_got_1">>
  ELSE <<>>

RECURSIVE errorEach(_, _, _)
\* the diagnostics codes[i..] reported in order
errorEach(c, codes, i) ==
  IF i > Len(codes) THEN c ELSE errorEach(error(c, codes[i]), codes, i + 1)

\* compileCallDirect (not inlined)
compileCallDirect(c, fn, args, hasThis) ==
  Bind(checkCallSignature(signatureOf(fn), Len(args), hasThis), LAMBDA reported :
    IF reported # <<>> THEN [c |-> errorEach(c, reported, 1), x |-> createUnreachable]
    ELSE Bind(compileOperands(c, args, 1,
                              IF hasThis THEN <<createGetLocal(0)>> ELSE <<>>),
              LAMBDA r : Call(r.c, "makeCallDirect", <<fn, r.xs>>)))

\* block { set_global(~argc, argc); call_indirect(index, operands) }
createArgcBlockIndirect(argc, operands, type) ==
  Expr("Block", 0, "call_indirect", operands, argc, type, FALSE)

\* makeCallIndirect(signature, indexArg, operands): missing operands are filled with zeroes
makeCallIndirect(c, signature, operands) ==
  LET maxOperandsOf == IF signature.thisType THEN signature.parameterTypes + 1
                       ELSE signature.parameterTypes
      numOperands == Len(operands)
      numArguments == IF signature.thisType THEN numOperands - 1 ELSE numOperands
      filled == operands \o [k \in 1..(maxOperandsOf - numOperands) |-> createI32(0)]
  IN [c |-> ensureArgcVar(c), x |-> createArgcBlockIndirect(numArguments, filled, "i32")]

\* compileCallIndirect(signature, indexArg, argumentExpressions, reportNode, thisArg)
compileCallIndirect(c, signature, args, hasThis) ==
  Bind(checkCallSignature(signature, Len(args), hasThis), LAMBDA reported :
    IF reported # <<>> THEN [c |-> errorEach(c, reported, 1), x |-> createUnreachable]
    ELSE Bind(compileOperands(c, args, 1,
                              IF hasThis THEN <<createGetLocal(0)>> ELSE <<>>),
              LAMBDA r : makeCallIndirect(r.c, signature, r.xs)))

\* compileGetter(prototype, reportNode), case FUNCTION_PROTOTYPE
compileGetter(c, fn) ==
  Bind(checkCallSignature(signatureOf(fn), 0, isInstance(fn)), LAMBDA reported :
    IF reported # <<>> THEN [c |-> errorEach(c, reported, 1), x |-> createUnreachable]
    ELSE compileCallDirect(c, fn, <<>>, isInstance(fn)))

\* bug variant: omitted arguments are never inlined
allOptionalsAreConstant_never(fn, numArguments) == FALSE

\* makeCallDirect: every omitted parameter has an initializer that is a constant value
allOptionalsAreConstant(fn, numArguments) ==
  \A i \in (numArguments + 1)..maxArguments(fn) :
    LET initializer == Decl(fn).parameters[i]
    IN initializer.kind # "NONE" /\ nodeIsConstantValue(initializer.kind)

\* bug variant: omitted arguments are filled with zeroes although they are constants
compileInitializers_zero(c, fn, i, acc) ==
  [c |-> c, xs |-> acc \o [k \in 1..(maxArguments(fn) - i + 1) |-> createI32(0)]]

\* makeCallDirect: the initializers of the omitted parameters, lowered at the call site
compileInitializers(c, fn, i, acc) ==
  IF i > maxArguments(fn) THEN [c |-> c, xs |-> acc]
  ELSE Bind(Call(c, "compileExpression", <<Decl(fn).parameters[i]>>), LAMBDA r :
         compileInitializers(r.c, fn, i + 1, Append(acc, r.x)))

\* makeCallDirect: "otherwise just call through"
callThrough(c, fn, operands) ==
  [c |-> c,
   x |-> IF "MODULE_IMPORT" \in c.flags[fn]
         THEN createCallImport(fn, operands, Decl(fn).returnType)
         ELSE createCall(fn, operands, Decl(fn).returnType)]

\* makeCallDirect: the call of the trampoline with ~argc set
callTrampoline(c, fn, numArguments, operands) ==
  Bind(Call(Call(c, "ensureTrampoline", <<fn>>), "compileFunction", <<TrampolineName(fn)>>),
       LAMBDA ct :
    IF ~ct.ok THEN [c |-> ct.c, x |-> createUnreachable]
    ELSE [c |-> ensureArgcVar(ct.c),
          x |-> createArgcBlock(numArguments, TrampolineName(fn), operands,
                                Decl(fn).returnType)])

\* makeCallDirect(instance, operands)
makeCallDirect(c0, fn, operands) ==
  Bind(Call(c0, "compileFunction", <<fn>>), LAMBDA compiled :
    LET c == compiled.c
        numOperands == Len(operands)
        numArguments == IF isInstance(fn) THEN numOperands - 1 ELSE numOperands
        isCallImport == "MODULE_IMPORT" \in c.flags[fn]
        padded == operands \o [i \in 1..(maxArguments(fn) - numArguments) |-> createI32(0)]
    IN IF ~compiled.ok THEN [c |-> c, x |-> createUnreachable]
       ELSE IF numOperands < maxOperands(fn)
       THEN IF allOptionalsAreConstant(fn, numArguments)
            THEN Bind(compileInitializers(c, fn, numArguments + 1, operands), LAMBDA r :
                   callThrough(r.c, fn, r.xs))
            ELSE IF ~isCallImport THEN callTrampoline(c, fn, numArguments, padded)
            ELSE callThrough(c, fn, padded)
       ELSE callThrough(c, fn, operands))

(***************************************************************************)
(* The body of a trampoline: nested blocks around a br_table.  A node is   *)
(* its operation, its label (a block's name, a switch's default), a number *)
(* (the local a set_local writes, the constant of a subtraction, the       *)
(* number of names of a switch) and its children.                          *)
(***************************************************************************)
Node(op, label, index, children) ==
  [op |-> op, label |-> label, index |-> index, children |-> children]

\* labels: names[i] = i + "of" + numOptional is i; "outOfRange"; null (no label)
outOfRange == -1
NoLabel == -2

\* no body added
NoBody == Node("None", NoLabel, 0, <<>>)

createBlock(label, children) == Node("Block", label, 0, children)
createSetLocal(index) == Node("SetLocal", NoLabel, index, <<>>)
unreachableNode == Node("Unreachable", NoLabel, 0, <<>>)
getArgc == Node("GetGlobal.~argc", NoLabel, 0, <<>>)
\* switch(names, default, condition) with names[i] = i for i < numNames
createSwitch(numNames, default, condition) == Node("Switch", default, numNames, <<condition>>)
\* call(original, forwardedOperands)
callOriginal(numOperands) == Node("Call", NoLabel, numOperands, <<>>)

\* bug variant: the switch is over ~argc itself
switchCondition_noSubtract(original) == getArgc

\* ensureTrampoline: the number of provided optional arguments, so subtract the required
switchCondition(original) ==
  IF minArguments(original) # 0
  THEN Node("Binary.SubI32", NoLabel, minArguments(original), <<getArgc>>)
  ELSE getArgc

\* ensureTrampoline: the initializer of optional parameter i + 1 (the i-th optional one)
trampolineInitExpr(original, i) ==
  IF Decl(original).parameters[minArguments(original) + i + 1].kind # "NONE"
  THEN createSetLocal(minOperands(original) + i)
  ELSE unreachableNode

RECURSIVE trampolineBody(_, _)
\* ensureTrampoline: body after i optional parameters were wrapped around the switch
trampolineBody(original, i) ==
  IF i = 0
  THEN createBlock(0, <<createBlock(outOfRange,
                          <<createSwitch(maxOperands(original) - minOperands(original) + 1,
                                         outOfRange, switchCondition(original))>>),
                        unreachableNode>>)
  ELSE createBlock(i, <<trampolineBody(original, i - 1), trampolineInitExpr(original, i - 1)>>)

\* ensureTrampoline: the body the trampoline is added with
trampolineFunctionBody(original) ==
  createBlock(NoLabel,
              <<trampolineBody(original, maxOperands(original) - minOperands(original)),
                callOriginal(maxOperands(original))>>)

(***************************************************************************)
(* Executing a body with a value of ~argc: the events in order (set_local  *)
(* of an operand index, the call of the original, unreachable) and how it  *)
(* ends: "next" (falls through), "br" to a label, or "trap".               *)
(***************************************************************************)
Event(ev, arg) == [ev |-> ev, arg |-> arg]
Outcome(trace, outcome, label) == [trace |-> trace, outcome |-> outcome, label |-> label]

\* the value of a switch condition
EvalCondition(node, argc) ==
  IF node.op = "Binary.SubI32" THEN argc - node.index ELSE argc

RECURSIVE Exec(_, _, _)
RECURSIVE ExecSeq(_, _, _, _)
\* the children of a block, until one branches or traps
ExecSeq(children, i, argc, trace) ==
  IF i > Len(children) THEN Outcome(trace, "next", NoLabel)
  ELSE Bind(Exec(children[i], argc, trace), LAMBDA r :
         IF r.outcome = "next" THEN ExecSeq(children, i + 1, argc, r.trace) ELSE r)

\* one node; the index of a br_table is unsigned, so a negative one is out of range
Exec(node, argc, trace) ==
  CASE node.op = "Block" ->
         Bind(ExecSeq(node.children, 1, argc, trace), LAMBDA r :
           IF r.outcome = "br" /\ r.label = node.label
           THEN Outcome(r.trace, "next", NoLabel) ELSE r)
    [] node.op = "Switch" ->
         Bind(EvalCondition(node.children[1], argc), LAMBDA k :
           IF k >= 0 /\ k < node.index THEN Outcome(trace, "br", k)
           ELSE Outcome(trace, "br", node.label))
    [] node.op = "SetLocal" -> Outcome(Append(trace, Event("set_local", node.index)), "next", NoLabel)
    [] node.op = "Call" -> Outcome(Append(trace, Event("call", node.index)), "next", NoLabel)
    [] node.op = "Unreachable" -> Outcome(Append(trace, Event("unreachable", 0)), "trap", NoLabel)

\* no trampoline executed yet
NoRun == [original |-> "", argc |-> 0, trace |-> <<>>, outcome |-> "none"]

\* ensureTrampoline: the initializers of the optional parameters, lowered in the trampoline
compileTrampolineInitializers(c, original, i) ==
  IF i > maxArguments(original) THEN c
  ELSE Bind(IF Decl(original).parameters[i].kind # "NONE"
            THEN Call(c, "compileExpression", <<Decl(original).parameters[i]>>).c
            ELSE error(c, "Optional_parameter_must_have_an_initializer"),
            LAMBDA c1 : compileTrampolineInitializers(c1, original, i + 1))

\* ensureTrampoline(original): the trampoline element is TrampolineName(original)
ensureTrampoline(c, original) ==
  IF c.trampoline[original] THEN c
  ELSE LET t == TrampolineName(original)
           created == [c EXCEPT !.trampoline[original] = TRUE,
                                !.flags[t] = c.flags[original] \cup {"TRAMPOLINE", "COMPILED"}]
       IN Bind(compileTrampolineInitializers(created, original, minArguments(original) + 1),
               LAMBDA lowered :
                 [addFunction(lowered, t) EXCEPT
                    !.moduleFunctionBody[t] = trampolineFunctionBody(original)])

\* bug variant: the original is stored in the table, not its trampoline
ensureFunctionTableEntry_original(c, fn) ==
  IF c.functionTableIndex[fn] >= 0 THEN [c |-> c, index |-> c.functionTableIndex[fn]]
  ELSE LET index == Len(c.functionTable)
       IN [c |-> [c EXCEPT !.functionTable = Append(@, fn), !.functionTableIndex[fn] = index],
           index |-> index]

\* ensureFunctionTableEntry(func)
ensureFunctionTableEntry(c, fn) ==
  IF c.functionTableIndex[fn] >= 0 THEN [c |-> c, index |-> c.functionTableIndex[fn]]
  ELSE LET index == Len(c.functionTable)
           substitute == "TRAMPOLINE" \notin c.flags[fn] /\ minArguments(fn) < maxArguments(fn)
           func == IF substitute THEN TrampolineName(fn) ELSE fn
       IN Bind(IF substitute THEN Call(c, "ensureTrampoline", <<fn>>) ELSE c, LAMBDA c1 :
            [c |-> [c1 EXCEPT !.functionTable = Append(@, func),
                              !.functionTableIndex[func] = index],
             index |-> index])

\* ensureArgcSet(): adds the ~setargc function and its export once
ensureArgcSet(c) ==
  IF c.argcSet THEN c
  ELSE [addFunction(ensureArgcVar(c), "~setargc") EXCEPT
          !.argcSet = TRUE, !.moduleFunctionExports = @ \cup {"~setargc"}]

\* makeModuleExport(name, element, prefix), case FUNCTION
makeModuleExport(c, fn) ==
  LET optional == minArguments(fn) < maxArguments(fn)
      instance == IF optional THEN TrampolineName(fn) ELSE fn
  IN Bind(IF optional THEN ensureArgcSet(Call(c, "ensureTrampoline", <<fn>>)) ELSE c,
          LAMBDA c1 :
            IF "COMPILED" \in c1.flags[instance]
            THEN [c1 EXCEPT !.moduleFunctionExports = @ \cup {instance}]
            ELSE c1)

\* bug variant: a user main alone does not get the start function added
assembleStart_bodyOnly(c) ==
  IF Len(c.startFunctionBody) # 0
  THEN IF ~mainFunction THEN [addFunction(c, "start") EXCEPT !.moduleStart = "start"]
       ELSE addFunction(c, "start")
  ELSE c

\* compile(): the start function is added if not empty or called by main
assembleStart(c) ==
  IF Len(c.startFunctionBody) # 0 \/ mainFunction
  THEN IF ~mainFunction THEN [addFunction(c, "start") EXCEPT !.moduleStart = "start"]
       ELSE addFunction(c, "start")
  ELSE c

\* instance.is(CommonFlags.MAIN): the function is the user main of the program
isMain(fn) == mainFunction /\ "MAIN" \in Decl(fn).flags

\* compileFunction: the function is added once its body statements are lowered
finishFunction(c, fn) ==
  LET d == Decl(fn)
      started == IF isMain(fn) THEN addGlobal(c, "~started", TRUE, createI32(0))
                 ELSE c
      returned ==
        IF "CONSTRUCTOR" \notin d.flags /\ d.returnType # "void" /\ ~d.flowReturns
        THEN error(started, "A_function_must_return_a_value")
        ELSE started
  IN [c |-> addFunction(returned, fn), ok |-> TRUE]

\* compileFunction after the COMPILED flag is set
compileFunctionBody(c, fn) ==
  LET d == Decl(fn)
      ambient == "AMBIENT" \in d.flags
      checked ==
        IF d.hasBody /\ ambient
        THEN error(c, "An_implementation_cannot_be_declared_in_ambient_contexts")
        ELSE IF ~d.hasBody /\ ~ambient THEN error(c, "Function_implementation_is_missing")
        ELSE c
  IN IF d.hasBody
     THEN Bind(compileStatements(checked, d.body, 1), LAMBDA stmts : finishFunction(stmts, fn))
     ELSE [c |-> addFunctionImport(Set(checked, fn, "MODULE_IMPORT"), fn), ok |-> TRUE]

\* compileFunction(instance)
compileFunction(c, fn) ==
  IF "COMPILED" \in c.flags[fn] THEN [c |-> c, ok |-> TRUE]
  ELSE compileFunctionBody(Set(c, fn, "COMPILED"), fn)

\* compileGlobal: the global is added once its initializer x is lowered
emitGlobal(c, g, x) ==
  LET d == GlobalDecl(g)
      isDeclaredConstant == "CONST" \in d.flags \/ {"STATIC", "READONLY"} \subseteq d.flags
      folds == isDeclaredConstant /\ precomputesToConst(x)
      initializeInStart == x.id # "Const" /\ ~folds
      warned ==
        IF x.id # "Const" /\ isDeclaredConstant /\ ~folds
        THEN error(c, "Compiling_constant_with_non_constant_initializer_as_mutable")
        ELSE c
      inlined ==
        IF "INLINE" \in d.decorators /\ ~initializeInStart
        THEN [Set(warned, g, "INLINED") EXCEPT !.constantIntegerValue[g] = x.value]
        ELSE warned
  IN IF initializeInStart
     THEN [c |-> [addGlobal(inlined, g, TRUE, createI32(0)) EXCEPT
                    !.startFunctionBody = Append(@, createSetGlobal(g, x)),
                    !.startOrigins = Append(@, DeclaredAt(g))],
           ok |-> TRUE]
     ELSE [c |-> addGlobal(inlined, g, ~isDeclaredConstant, x), ok |-> TRUE]

\* compileGlobal once the type of the global is resolved; initExpr: the initializer if
\* it was lowered to infer the type (id "None" otherwise)
compileGlobalTyped(c, g, initExpr) ==
  LET d == GlobalDecl(g)
      ambient == "AMBIENT" \in d.flags
      isDeclaredConstant == "CONST" \in d.flags \/ {"STATIC", "READONLY"} \subseteq d.flags
  IN IF ambient /\ "BUILTIN" \in d.decorators THEN [c |-> c, ok |-> TRUE]
     ELSE IF ambient
     THEN IF isDeclaredConstant \/ mutableGlobal
          THEN [c |-> addGlobalImport(Set(c, g, "MODULE_IMPORT"), g), ok |-> TRUE]
          ELSE [c |-> error(c, "Operation_not_supported"), ok |-> FALSE]
     ELSE IF d.initializer.kind # "NONE"
     THEN Bind(IF initExpr.id # "None" THEN [c |-> c, x |-> initExpr]
               ELSE Call(c, "compileExpression", <<d.initializer>>),
               LAMBDA lowered : emitGlobal(lowered.c, g, lowered.x))
     ELSE [c |-> addGlobal(c, g, ~isDeclaredConstant, createI32(0)), ok |-> TRUE]

\* compileGlobal: resolve the annotated type or infer it from the initializer
resolveGlobalType(c, g) ==
  LET d == GlobalDecl(g)
      none == Expr("None", 0, "", <<>>, -1, "void", FALSE)
  IN IF c.globalType[g] # "void" THEN [c |-> c, ok |-> TRUE, initExpr |-> none]
     ELSE IF d.typeNode = "unresolvable" THEN [c |-> c, ok |-> FALSE, initExpr |-> none]
     ELSE IF d.typeNode = "void"
     THEN [c |-> error(c, "Type_expected"), ok |-> FALSE, initExpr |-> none]
     ELSE IF d.typeNode # "none"
     THEN [c |-> [c EXCEPT !.globalType[g] = d.typeNode], ok |-> TRUE, initExpr |-> none]
     ELSE IF d.initializer.kind # "NONE"
     THEN Bind(Call(c, "compileExpression", <<d.initializer>>), LAMBDA inferred :
            IF inferred.x.type = "void"
            THEN [c |-> error(inferred.c, "Type_0_is_not_assignable_to_type_1"),
                  ok |-> FALSE, initExpr |-> none]
            ELSE [c |-> [inferred.c EXCEPT !.globalType[g] = inferred.x.type],
                  ok |-> TRUE, initExpr |-> inferred.x])
     ELSE [c |-> error(c, "Type_expected"), ok |-> FALSE, initExpr |-> none]

\* compileGlobal after the COMPILED flag is set
compileGlobalBody(c, g) ==
  Bind(resolveGlobalType(c, g), LAMBDA t :
    IF ~t.ok THEN [c |-> t.c, ok |-> FALSE] ELSE compileGlobalTyped(t.c, g, t.initExpr))

\* compileGlobal(global)
compileGlobal(c, g) ==
  IF "COMPILED" \in c.flags[g] THEN [c |-> c, ok |-> TRUE]
  ELSE compileGlobalBody(Set(c, g, "COMPILED"), g)

\* compileEnum: the initializer of a member, whether it goes to the start function, and
\* the diagnostics; previousValue = "": no member before this one
lowerEnumMember(c, e, member, previousValue, previousValueIsMut) ==
  LET isConst == "CONST" \in EnumDecl(e).flags
      constError == "In_const_enum_declarations_member_initializer_must_be_constant_expression"
  IN IF member.value.kind # "NONE"
     THEN Bind(Call(c, "compileExpression", <<member.value>>), LAMBDA lowered :
            LET inStart == lowered.x.id # "Const"
                             /\ ~(isConst /\ precomputesToConst(lowered.x))
            IN [c |-> IF inStart /\ isConst THEN error(lowered.c, constError) ELSE lowered.c,
                x |-> lowered.x, initInStart |-> inStart])
     ELSE IF previousValue = ""
     THEN [c |-> c, x |-> createI32(0), initInStart |-> FALSE]
     ELSE LET x == createBinary(createGetGlobal(c, previousValue), createI32(1))
              c1 == IF previousValueIsMut
                    THEN error(c, "Enum_member_must_have_initializer") ELSE c
              inStart == ~precomputesToConst(x)
          IN [c |-> IF inStart /\ isConst THEN error(c1, constError) ELSE c1,
              x |-> x, initInStart |-> inStart]

\* compileEnum: the global of a member
addEnumMember(r, e, member) ==
  IF r.initInStart
  THEN [addGlobal(r.c, member.name, TRUE, createI32(0)) EXCEPT
          !.startFunctionBody = Append(@, createSetGlobal(member.name, r.x)),
          !.startOrigins = Append(@, DeclaredAt(member.name))]
  ELSE addGlobal(r.c, member.name, "CONST" \notin EnumDecl(e).flags, r.x)

RECURSIVE compileEnumMembers(_, _, _, _, _)
\* the member loop of compileEnum
compileEnumMembers(c, e, i, previousValue, previousValueIsMut) ==
  IF i > Len(EnumDecl(e).members) THEN c
  ELSE Bind(lowerEnumMember(Set(c, EnumDecl(e).members[i].name, "COMPILED"), e,
                            EnumDecl(e).members[i], previousValue, previousValueIsMut),
            LAMBDA r :
              compileEnumMembers(addEnumMember(r, e, EnumDecl(e).members[i]), e, i + 1,
                                 EnumDecl(e).members[i].name, r.initInStart))

\* bug variant: an enum is compiled again although it is flagged COMPILED
compileEnum_again(c, e) ==
  [c |-> compileEnumMembers(Set(c, e, "COMPILED"), e, 1, "", FALSE), ok |-> TRUE]

\* compileEnum(element)
compileEnum(c, e) ==
  IF "COMPILED" \in c.flags[e] THEN [c |-> c, ok |-> TRUE]
  ELSE [c |-> compileEnumMembers(Set(c, e, "COMPILED"), e, 1, "", FALSE), ok |-> TRUE]

RECURSIVE compileClassMembers(_, _, _)
\* the member loops of compileClass
compileClassMembers(c, members, i) ==
  IF i > Len(members) THEN c
  ELSE Bind(CASE members[i].kind = "GLOBAL" -> Call(c, "compileGlobal", <<members[i].name>>).c
              [] members[i].kind = "FUNCTION_PROTOTYPE" ->
                   Call(c, "compileFunction", <<members[i].name>>).c
              [] members[i].kind = "FIELD" -> Set(c, members[i].name, "COMPILED"),
            LAMBDA c1 : compileClassMembers(c1, members, i + 1))

\* compileClass(instance)
compileClass(c, k) ==
  IF "COMPILED" \in c.flags[k] THEN [c |-> c, ok |-> TRUE]
  ELSE Bind(compileClassMembers(Set(c, k, "COMPILED"), ClassDecl(k).staticMembers, 1),
            LAMBDA statics :
              Bind(IF ClassDecl(k).constructorInstance # ""
                   THEN Call(statics, "compileFunction", <<ClassDecl(k).constructorInstance>>).c
                   ELSE statics,
                   LAMBDA ctor :
                     [c |-> compileClassMembers(ctor, ClassDecl(k).members, 1), ok |-> TRUE]))

RECURSIVE compileSourceStatements(_, _, _)

\* compileSourceByPath(path)
compileSourceByPath(c, path) ==
  IF path \in SourceNames THEN Call(c, "compileSource", <<path>>)
  ELSE error(c, "File_0_not_found")

\* compileSource and compileNamespaceDeclaration: the tree-shaking condition of a declaration
selected_always(isEntry, statement) == TRUE
selected(isEntry, statement) == noTreeShaking \/ (isEntry /\ statement.export)

\* history: compileSource made this call for this statement
logged(c, src, statement, lowerer) ==
  [c EXCEPT !.lowererCalls = @ \cup {[at |-> StatementAt(src, statement), lowerer |-> lowerer]}]

RECURSIVE compileNamespaceDeclaration(_, _, _)

\* compileNamespaceDeclaration(declaration), from its i-th member on; a member is selected
\* like a declaration of an entry source
compileNamespaceDeclaration(c, declaration, i) ==
  IF i > Len(declaration.members) THEN c
  ELSE LET member == declaration.members[i]
           chosen == selected(TRUE, member)
       IN Bind(CASE member.kind = "CLASSDECLARATION" ->
                      IF chosen /\ ~member.isGeneric
                      THEN Call(c, "compileClass", <<member.target>>).c ELSE c
                 [] member.kind = "ENUMDECLARATION" ->
                      IF chosen THEN Call(c, "compileEnum", <<member.target>>).c ELSE c
                 [] member.kind = "FUNCTIONDECLARATION" ->
                      IF chosen /\ ~member.isGeneric
                      THEN Call(c, "compileFunction", <<member.target>>).c ELSE c
                 [] member.kind = "VARIABLE" ->
                      IF chosen THEN Call(c, "compileGlobal", <<member.target>>).c ELSE c,
               LAMBDA c1 : compileNamespaceDeclaration(c1, declaration, i + 1))

RECURSIVE compileExportStatement(_, _, _, _)

\* compileExportStatement(statement), from its i-th member on
compileExportStatement(c, isEntry, statement, i) ==
  IF i > Len(statement.members) THEN c
  ELSE LET element == statement.members[i]
       IN Bind(CASE element \in ClassNames -> Call(c, "compileClass", <<element>>).c
                 [] element \in EnumNames -> Call(c, "compileEnum", <<element>>).c
                 [] element \in FunctionNames ->
                      IF isEntry THEN Call(c, "compileFunction", <<element>>).c ELSE c
                 [] element \in GlobalNames -> Call(c, "compileGlobal", <<element>>).c
                 [] OTHER -> c,
               LAMBDA c1 : compileExportStatement(c1, isEntry, statement, i + 1))

\* compileSource: one top-level statement
compileSourceStatement(c, src, statement) ==
  LET isEntry == SourceDecl(src).isEntry
      chosen == selected(isEntry, statement)
  IN CASE statement.kind = "CLASSDECLARATION" ->
            IF chosen /\ ~statement.isGeneric
            THEN Call(logged(c, src, statement, "compileClassDeclaration"),
                      "compileClass", <<statement.target>>).c
            ELSE c
       [] statement.kind = "INTERFACEDECLARATION" -> c
       [] statement.kind = "ENUMDECLARATION" ->
            IF chosen
            THEN Call(logged(c, src, statement, "compileEnumDeclaration"),
                      "compileEnum", <<statement.target>>).c
            ELSE c
       [] statement.kind = "FUNCTIONDECLARATION" ->
            IF chosen /\ ~statement.isGeneric
            THEN Call(logged(c, src, statement, "compileFunctionDeclaration"),
                      "compileFunction", <<statement.target>>).c
            ELSE c
       [] statement.kind = "IMPORT" ->
            compileSourceByPath(logged(c, src, statement, "compileSourceByPath"),
                                statement.target)
       [] statement.kind = "NAMESPACEDECLARATION" ->
            IF chosen
            THEN compileNamespaceDeclaration(
                   logged(c, src, statement, "compileNamespaceDeclaration"), statement, 1)
            ELSE c
       [] statement.kind = "VARIABLE" ->
            Call(logged(c, src, statement, "compileVariableStatement"),
                 "compileGlobal", <<statement.target>>).c
       [] statement.kind = "EXPORT" ->
            Bind(IF statement.target # ""
                 THEN compileSourceByPath(logged(c, src, statement, "compileSourceByPath"),
                                          statement.target)
                 ELSE c,
                 LAMBDA c1 :
                   IF noTreeShaking \/ isEntry
                   THEN compileExportStatement(
                          logged(c1, src, statement, "compileExportStatement"),
                          isEntry, statement, 1)
                   ELSE c1)
       [] OTHER ->
            Bind(Call(logged(c, src, statement, "compileStatement"),
                      "compileExpression", <<statement.expression>>), LAMBDA r :
              [logged(r.c, src, statement, "startFunctionBody.push")
                 EXCEPT !.startFunctionBody = Append(@, r.x),
                        !.startOrigins = Append(@, StatementAt(src, statement))])

\* the statement loop of compileSource
compileSourceStatements(c, src, i) ==
  IF i > Len(SourceDecl(src).statements) THEN c
  ELSE Bind(compileSourceStatement(c, src, SourceDecl(src).statements[i]), LAMBDA c1 :
         compileSourceStatements(c1, src, i + 1))

\* compileSource(source)
compileSource(c, src) ==
  IF "COMPILED" \in c.flags[src] THEN c
  ELSE compileSourceStatements(Set(c, src, "COMPILED"), src, 1)

\* the operations by name
Call(c, op, args) ==
  CASE op = "compileExpression" -> compileExpression(c, args[1])
    [] op = "compileCallDirect" -> compileCallDirect(c, args[1], args[2], args[3])
    [] op = "makeCallDirect" -> makeCallDirect(c, args[1], args[2])
    [] op = "ensureTrampoline" -> ensureTrampoline(c, args[1])
    [] op = "ensureFunctionTableEntry" -> ensureFunctionTableEntry(c, args[1])
    [] op = "compileFunction" -> compileFunction(c, args[1])
    [] op = "compileGlobal" -> compileGlobal(c, args[1])
    [] op = "compileEnum" -> compileEnum(c, args[1])
    [] op = "compileClass" -> compileClass(c, args[1])
    [] op = "compileSource" -> compileSource(c, args[1])

(***************************************************************************)
(* ============== Statements and the flow of a function ================== *)
(* A flow is its flag set and whether it has a break label.  A statement   *)
(* is its node kind, its expression (the condition of an if) and its       *)
(* child statements (the arms of an if: ifTrue, then ifFalse if present).  *)
(***************************************************************************)
ReturnStmt == [kind |-> "RETURN", expression |-> NoExpr, body |-> <<>>]
ThrowStmt == [kind |-> "THROW", expression |-> NoExpr, body |-> <<>>]
BreakStmt == [kind |-> "BREAK", expression |-> NoExpr, body |-> <<>>]
ExpressionStmt(e) == [kind |-> "EXPRESSION", expression |-> e, body |-> <<>>]
BlockStmt(stmts) == [kind |-> "BLOCK", expression |-> NoExpr, body |-> stmts]
IfStmt(condition, ifTrue) == [kind |-> "IF", expression |-> condition, body |-> <<ifTrue>>]
IfElseStmt(condition, ifTrue, ifFalse) ==
  [kind |-> "IF", expression |-> condition, body |-> <<ifTrue, ifFalse>>]

\* conditions: true, 0, and the mutable global G1
Conditions == {TrueE, Lit(0), GlobalRef("G1")}

\* the statements without an if at their top
SimpleStatements ==
  {ReturnStmt, ThrowStmt, BreakStmt, ExpressionStmt(Lit(1)),
   BlockStmt(<<ExpressionStmt(Lit(1)), ReturnStmt, BreakStmt>>)}

\* the arms of the if statements
Arms ==
  SimpleStatements
    \cup {IfStmt(GlobalRef("G1"), ReturnStmt), IfElseStmt(GlobalRef("G1"), ReturnStmt, ThrowStmt)}

\* the else arms of the if statements
ElseArms == {ReturnStmt, ExpressionStmt(Lit(1)), IfStmt(GlobalRef("G1"), ReturnStmt)}

IfStatements ==
  {IfStmt(condition, ifTrue) : condition \in Conditions, ifTrue \in Arms}
    \cup {IfElseStmt(condition, ifTrue, ifFalse) :
            condition \in Conditions, ifTrue \in Arms, ifFalse \in ElseArms}

\* the flags a child flow takes from its parent (the contextual ones)
ContextFlags == {"INLINE_CONTEXT", "UNCHECKED_CONTEXT"}

\* FlowFlags.ANY_TERMINATING
AnyTerminating == {"RETURNS", "BREAKS", "CONTINUES", "THROWS"}

\* Flow.fork(): a child flow inheriting the contextual state
fork(parent) == [flags |-> parent.flags \cap ContextFlags, breakLabel |-> parent.breakLabel]

\* the conditional form of a flag, if it has one
Weaken(bit) ==
  CASE bit = "BREAKS" -> {"CONDITIONALLY_BREAKS"}
    [] bit = "CONTINUES" -> {"CONDITIONALLY_CONTINUES"}
    [] bit \in {"CONDITIONALLY_BREAKS", "CONDITIONALLY_CONTINUES"} -> {bit}
    [] OTHER -> {}

\* Flow.inherit(other): the child's set bits become the parent's
inherit(parent, other) == [parent EXCEPT !.flags = @ \cup other.flags]

\* Flow.inheritConditional(other): terminating bits weaken to CONDITIONALLY_*
inheritConditional(parent, other) ==
  [parent EXCEPT !.flags = @ \cup UNION {Weaken(bit) : bit \in other.flags}]

\* Flow.inheritMutual(left, right): bits set in both arms become unconditional in the
\* parent, bits set in exactly one degrade to conditional
inheritMutual(parent, left, right) ==
  [parent EXCEPT !.flags =
     @ \cup (left.flags \cap right.flags)
       \cup UNION {Weaken(bit) :
                     bit \in (left.flags \cup right.flags) \ (left.flags \cap right.flags)}]

RECURSIVE compileStatement(_, _)
RECURSIVE compileStatementsIn(_, _, _)

\* compileStatements(statements) of a block: stops after a terminating statement
compileStatementsIn(s, stmts, i) ==
  IF i > Len(stmts) THEN s
  ELSE Bind(compileStatement(s, stmts[i]), LAMBDA r :
         IF r.flow.flags \cap AnyTerminating # {} THEN r
         ELSE compileStatementsIn(r, stmts, i + 1))

\* compileBlockStatement(statement)
compileBlockStatement(s, stmt) ==
  Bind(compileStatementsIn([c |-> s.c, flow |-> fork(s.flow)], stmt.body, 1), LAMBDA r :
    [c |-> r.c, flow |-> inherit(s.flow, r.flow)])

\* compileBreakStatement(statement), without a label
compileBreakStatement(s) ==
  IF ~s.flow.breakLabel
  THEN [s EXCEPT !.c = error(@, "A_break_statement_can_only_be_used_within_an_enclosing_iteration_or_switch_statement")]
  ELSE [s EXCEPT !.flow.flags = @ \cup {"BREAKS"}]

\* bug variant: the arm of an if is merged as if it always ran
mergeArms_inherit(parentFlow, ifTrueFlow, ifFalseFlow, hasElse) ==
  inherit(parentFlow, ifTrueFlow)

\* compileIfStatement: the parent flow after both arms are compiled
mergeArms(parentFlow, ifTrueFlow, ifFalseFlow, hasElse) ==
  IF hasElse THEN inheritMutual(parentFlow, ifTrueFlow, ifFalseFlow)
  ELSE inheritConditional(parentFlow, ifTrueFlow)

\* compileIfStatement: "each arm initiates a branch"
forkArms(c, parentFlow, stmt) ==
  Bind(compileStatement([c |-> c, flow |-> fork(parentFlow)], stmt.body[1]), LAMBDA t :
    IF Len(stmt.body) = 2
    THEN Bind(compileStatement([c |-> t.c, flow |-> fork(parentFlow)], stmt.body[2]),
              LAMBDA f :
                [c |-> f.c, flow |-> mergeArms(parentFlow, t.flow, f.flow, TRUE),
                 ifTrueFlow |-> t.flow.flags, ifFalseFlow |-> f.flow.flags, forked |-> TRUE])
    ELSE [c |-> t.c, flow |-> mergeArms(parentFlow, t.flow, t.flow, FALSE),
          ifTrueFlow |-> t.flow.flags, ifFalseFlow |-> {}, forked |-> TRUE])

\* compileIfStatement: the condition is constant, only the live arm is compiled, in the
\* flow of the parent
compileLiveArm(c, parentFlow, stmt, condition) ==
  IF condition # 0
  THEN Bind(compileStatement([c |-> c, flow |-> parentFlow], stmt.body[1]), LAMBDA t :
         [c |-> t.c, flow |-> t.flow, ifTrueFlow |-> t.flow.flags, ifFalseFlow |-> {},
          forked |-> FALSE])
  ELSE IF Len(stmt.body) = 2
  THEN Bind(compileStatement([c |-> c, flow |-> parentFlow], stmt.body[2]), LAMBDA f :
         [c |-> f.c, flow |-> f.flow, ifTrueFlow |-> {}, ifFalseFlow |-> f.flow.flags,
          forked |-> FALSE])
  ELSE [c |-> c, flow |-> parentFlow, ifTrueFlow |-> {}, ifFalseFlow |-> {},
        forked |-> FALSE]

\* compileIfStatement(statement): the state after it, the flows of its arms, and whether
\* the arms were forked
compileIfStatement(s, stmt) ==
  Bind(Call(s.c, "compileExpression", <<stmt.expression>>), LAMBDA condExpr :
    IF ~noTreeShaking \/ genericContext
    THEN IF precomputesToConst(condExpr.x) /\ condExpr.x.type = "i32"
         THEN compileLiveArm(condExpr.c, s.flow, stmt, condExpr.x.value)
         ELSE Bind(Call(condExpr.c, "compileExpression", <<stmt.expression>>),
                   LAMBDA again : forkArms(again.c, s.flow, stmt))
    ELSE forkArms(condExpr.c, s.flow, stmt))

\* compileStatement(statement)
compileStatement(s, stmt) ==
  CASE stmt.kind = "RETURN" -> [s EXCEPT !.flow.flags = @ \cup {"RETURNS"}]
    [] stmt.kind = "THROW" -> [s EXCEPT !.flow.flags = @ \cup {"THROWS", "RETURNS"}]
    [] stmt.kind = "BREAK" -> compileBreakStatement(s)
    [] stmt.kind = "EXPRESSION" ->
         [s EXCEPT !.c = Call(@, "compileExpression", <<stmt.expression>>).c]
    [] stmt.kind = "BLOCK" -> compileBlockStatement(s, stmt)
    [] stmt.kind = "IF" ->
         Bind(compileIfStatement(s, stmt), LAMBDA r : [c |-> r.c, flow |-> r.flow])

(***************************************************************************)
(* ============== Expressions and the current type ======================= *)
(* compileExpression as far as types go: the type the lowering of a node   *)
(* leaves in currentType, the conversion to the contextual type, and the   *)
(* operations emitted (x: the node ids, innermost first).                  *)
(***************************************************************************)
Types == {"i8", "i32", "i64", "f32", "f64", "bool", "usize", "void"}
ConversionKinds == {"NONE", "IMPLICIT", "EXPLICIT"}
WrapModes == {"NONE", "WRAP"}

FloatLit == [kind |-> "LITERAL", value |-> 1, target |-> "float", args |-> <<>>]
ArrayLit == [kind |-> "LITERAL", value |-> 0, target |-> "array", args |-> <<>>]
NullE == [kind |-> "NULL", value |-> 0, target |-> "", args |-> <<>>]
Paren(e) == [kind |-> "PARENTHESIZED", value |-> 0, target |-> "", args |-> <<e>>]
\* a node kind compileExpression has no case for
ConstructorE == [kind |-> "CONSTRUCTOR", value |-> 0, target |-> "", args |-> <<>>]

\* 1, 300, 1.0, [], true, null, (300), (true), f(5, 7), h(), and an unsupported node
TypedExpressions ==
  {Lit(1), Lit(300), FloatLit, ArrayLit, TrueE, NullE, Paren(Lit(300)), Paren(TrueE),
   CallE("f", <<Lit(5), Lit(7)>>), CallE("h", <<>>), ConstructorE}

\* Type.is(TypeFlags.FLOAT | INTEGER | LONG | SIGNED | SHORT), Type.size
isFloat(type) == type \in {"f32", "f64"}
isInteger(type) == type \in {"i8", "i32", "i64", "bool", "usize"}
isLong(type) == type = "i64" \/ (type = "usize" /\ isWasm64)
isSigned(type) == type \in {"i8", "i32", "i64"}
isShort(type) == type \in {"i8", "bool"}
typeSize(type) ==
  CASE type = "bool" -> 1
    [] type = "i8" -> 8
    [] type \in {"i32", "f32"} -> 32
    [] type \in {"i64", "f64"} -> 64
    [] type = "usize" -> IF isWasm64 THEN 64 ELSE 32
    [] type = "void" -> 0

\* Type.isAssignableTo(target): same kind of number, not narrower
isAssignableTo(fromType, toType) ==
  \/ fromType = toType
  \/ isInteger(fromType) /\ isInteger(toType) /\ typeSize(fromType) <= typeSize(toType)
       /\ (isSigned(fromType) => isSigned(toType) \/ toType = "bool")
  \/ isInteger(fromType) /\ isFloat(toType) /\ typeSize(fromType) < typeSize(toType)
  \/ fromType = "f32" /\ toType = "f64"

\* i64_is_i8, i64_is_i32, i64_is_u32, i64_is_bool
i64_is_i8(value) == value \in -128..127
i64_is_i32(value) == value \in (-2147483647 - 1)..2147483647
i64_is_u32(value) == value >= 0 /\ value \div 65536 < 65536
i64_is_bool(value) == value \in {0, 1}

\* Flow.canOverflow(expr, type): a constant cannot
canOverflow(x) == x # <<"Const">>

\* ensureSmallIntegerWrap(expr, type)
ensureSmallIntegerWrap(x, type) ==
  IF isShort(type) /\ canOverflow(x) THEN Append(x, "SmallIntegerWrap") ELSE x

\* what lowering leaves: the expression, currentType, the diagnostics, and the number of
\* convertExpression calls made
Lowered(x, type, errors) ==
  [x |-> x, currentType |-> type, errors |-> errors, conversions |-> 0]

\* compileLiteralExpression, case INTEGER
compileIntegerLiteral(value, contextualType) ==
  IF \/ contextualType = "i8" /\ i64_is_i8(value)
     \/ contextualType = "i32" /\ i64_is_i32(value)
     \/ contextualType = "bool" /\ i64_is_bool(value)
     \/ contextualType = "usize" /\ (isWasm64 \/ i64_is_u32(value))
     \/ contextualType \in {"i64", "f32", "f64"}
  THEN Lowered(<<"Const">>, contextualType, <<>>)
  ELSE IF i64_is_i32(value) THEN Lowered(<<"Const">>, "i32", <<>>)
  ELSE Lowered(<<"Const">>, "i64", <<>>)

\* compileLiteralExpression
compileLiteralExpression(e, contextualType) ==
  CASE e.target = "float" ->
         Lowered(<<"Const">>, IF contextualType = "f32" THEN "f32" ELSE "f64", <<>>)
    [] e.target = "" -> compileIntegerLiteral(e.value, contextualType)
    [] e.target = "array" ->
         Lowered(<<"Unreachable">>, contextualType, <<"Operation_not_supported">>)

\* the operation convertExpression emits from fromType to toType, if any
conversionOp(fromType, toType) ==
  IF isFloat(fromType)
  THEN IF isFloat(toType)
       THEN (IF fromType = "f32" /\ toType = "f64" THEN <<"PromoteF32">>
             ELSE IF fromType = "f64" /\ toType = "f32" THEN <<"DemoteF64">> ELSE <<>>)
       ELSE <<"Trunc">>
  ELSE IF isInteger(fromType) /\ isFloat(toType) THEN <<"Convert">>
  ELSE IF isLong(fromType) THEN (IF ~isLong(toType) THEN <<"WrapI64">> ELSE <<>>)
  ELSE IF isLong(toType) THEN <<"Extend">>
  ELSE <<>>

ConversionOps == {"PromoteF32", "DemoteF64", "Trunc", "Convert", "WrapI64", "Extend", "Drop"}

\* convertExpression: the small integer is wrapped before it is extended or widened
wrapsBefore(fromType, toType) ==
  /\ isInteger(fromType) /\ isInteger(toType) /\ ~isLong(fromType)
  /\ \/ isLong(toType)
     \/ isShort(fromType) /\ typeSize(fromType) < typeSize(toType)

\* convertExpression(expr, fromType, toType, conversionKind, wrapMode); currentType is
\* fromType when it is called
convertExpression(x, fromType, toType, conversionKind, wrapMode) ==
  IF fromType = "void"
  THEN [x |-> <<"Unreachable">>, currentType |-> fromType,
        errors |-> <<"Type_0_is_not_assignable_to_type_1">>]
  ELSE IF toType = "void"
  THEN [x |-> Append(x, "Drop"), currentType |-> fromType, errors |-> <<>>]
  ELSE LET before == IF wrapsBefore(fromType, toType)
                     THEN ensureSmallIntegerWrap(x, fromType) ELSE x
           converted == before \o conversionOp(fromType, toType)
           wrap == wrapMode = "WRAP" /\ ~wrapsBefore(fromType, toType)
       IN [x |-> IF wrap THEN ensureSmallIntegerWrap(converted, toType) ELSE converted,
           currentType |-> toType,
           errors |-> IF ~isAssignableTo(fromType, toType) /\ conversionKind = "IMPLICIT"
                      THEN <<"Conversion_from_type_0_to_1_requires_an_explicit_cast">>
                      ELSE <<>>]

RECURSIVE compileTypedExpression(_, _, _, _)
RECURSIVE compileExpressionRetainType(_, _, _)

\* a binary expression: left operator right
BinaryE(operator, l, r) == [kind |-> "BINARY", value |-> 0, target |-> operator, args |-> <<l, r>>]

\* no type: what Type.commonCompatible returns for incompatible types
NoType == "none"

\* Type.commonCompatible(left, right, signednessIsImportant)
commonCompatible(left, right, signednessIsImportant) ==
  LET assignable(from, to) ==
        /\ isAssignableTo(from, to)
        /\ signednessIsImportant /\ isInteger(from) /\ isInteger(to)
              => isSigned(from) = isSigned(to)
  IN IF assignable(right, left) THEN left
     ELSE IF assignable(left, right) THEN right
     ELSE NoType

\* Type.intType: the integer type of the same size
intType(type) ==
  CASE type = "f32" -> "i32"
    [] type = "f64" -> "i64"
    [] OTHER -> type

\* compileBinaryExpression, case Token.LESSTHAN (no operator overloads)
compileLessThan(e, contextualType) ==
  Bind(compileExpressionRetainType(e.args[1], contextualType, "NONE"), LAMBDA left :
    Bind(compileExpressionRetainType(e.args[2], left.currentType, "NONE"), LAMBDA right :
      LET commonType == commonCompatible(left.currentType, right.currentType, TRUE)
      IN IF commonType # NoType
         THEN Lowered(<<"Lt">>, "bool", left.errors \o right.errors)
         ELSE Lowered(<<"Unreachable">>, contextualType,
                      left.errors \o right.errors
                        \o <<"Operator_0_cannot_be_applied_to_types_1_and_2">>)))

\* compileBinaryExpression, case Token.LESSTHAN_LESSTHAN (no operator overloads)
compileShiftLeft(e, contextualType) ==
  Bind(compileExpressionRetainType(e.args[1], intType(contextualType), "NONE"), LAMBDA left :
    Bind(compileTypedExpression(e.args[2], left.currentType, "IMPLICIT", "NONE"),
         LAMBDA right :
      IF isFloat(right.currentType)
      THEN Lowered(<<"Unreachable">>, right.currentType,
                   left.errors \o right.errors
                     \o <<"The_0_operator_cannot_be_applied_to_type_1">>)
      ELSE Lowered(<<"Shl">>, right.currentType, left.errors \o right.errors)))

\* compileBinaryExpression(expression, contextualType)
compileBinaryExpression(e, contextualType) ==
  CASE e.target = "<" -> compileLessThan(e, contextualType)
    [] e.target = "<<" -> compileShiftLeft(e, contextualType)

\* the type of a `this` expression: a class reference, which is pointer-sized
thisType == "usize"

\* compileCallExpression, case FUNCTION_PROTOTYPE of a function that is neither generic nor
\* built in: `this` is compiled if the function is an instance method, then
\* compileCallDirect checks the signature
compileCallExpression(e, contextualType) ==
  LET fn == e.target
      typeAtCall == IF isInstance(fn) THEN thisType ELSE contextualType
      reported == checkCallSignature(signatureOf(fn), Len(e.args), isInstance(fn))
  IN IF reported # <<>> THEN Lowered(<<"Unreachable">>, typeAtCall, reported)
     ELSE Lowered(<<"Call">>, Decl(fn).returnType, <<>>)

\* compileExpression: the switch over the node kind, entered with currentType set to
\* contextualType
compileExpressionKind(e, contextualType) ==
  CASE e.kind = "LITERAL" -> compileLiteralExpression(e, contextualType)
    [] e.kind = "TRUE" -> Lowered(<<"Const">>, "bool", <<>>)
    [] e.kind = "NULL" -> Lowered(<<"Const">>, "usize", <<>>)
    [] e.kind = "CALL" -> compileCallExpression(e, contextualType)
    [] e.kind = "BINARY" -> compileBinaryExpression(e, contextualType)
    [] e.kind = "PARENTHESIZED" ->
         compileTypedExpression(e.args[1], contextualType, "NONE", "NONE")
    [] OTHER -> Lowered(<<"Unreachable">>, contextualType, <<"Operation_not_supported">>)

\* bug variant: currentType is left as convertExpression left it
finishExpression_keepType(inner, contextualType, conversionKind, wrapMode) ==
  IF conversionKind # "NONE" /\ inner.currentType # contextualType
  THEN Bind(convertExpression(inner.x, inner.currentType, contextualType, conversionKind,
                              wrapMode),
            LAMBDA converted :
              [x |-> converted.x, currentType |-> converted.currentType,
               errors |-> inner.errors \o converted.errors,
               conversions |-> inner.conversions + 1, innerType |-> inner.currentType])
  ELSE [x |-> IF wrapMode = "WRAP" THEN ensureSmallIntegerWrap(inner.x, inner.currentType)
              ELSE inner.x,
        currentType |-> inner.currentType, errors |-> inner.errors,
        conversions |-> inner.conversions, innerType |-> inner.currentType]

\* compileExpression after the switch: convert to the contextual type, or wrap
finishExpression(inner, contextualType, conversionKind, wrapMode) ==
  IF conversionKind # "NONE" /\ inner.currentType # contextualType
  THEN Bind(convertExpression(inner.x, inner.currentType, contextualType, conversionKind,
                              wrapMode),
            LAMBDA converted :
              [x |-> converted.x, currentType |-> contextualType,
               errors |-> inner.errors \o converted.errors,
               conversions |-> inner.conversions + 1, innerType |-> inner.currentType])
  ELSE [x |-> IF wrapMode = "WRAP" THEN ensureSmallIntegerWrap(inner.x, inner.currentType)
              ELSE inner.x,
        currentType |-> inner.currentType, errors |-> inner.errors,
        conversions |-> inner.conversions, innerType |-> inner.currentType]

\* compileExpression(expression, contextualType, conversionKind, wrapMode)
compileTypedExpression(e, contextualType, conversionKind, wrapMode) ==
  Bind(compileExpressionKind(e, contextualType), LAMBDA inner :
    finishExpression(inner, contextualType, conversionKind, wrapMode))

\* compileExpressionRetainType(expression, contextualType, wrapMode)
compileExpressionRetainType(e, contextualType, wrapMode) ==
  compileTypedExpression(e, IF contextualType = "void" THEN "i32" ELSE contextualType,
                         "NONE", wrapMode)

(***************************************************************************)
(* ========= Statements and expressions of the current function ========== *)
(* The current function with its flows as objects.  f.flows[id] is the     *)
(* flow with identity id: its parent (0: none), its flags, its labels and  *)
(* how often it was freed.  f.flow is the identity of                      *)
(* currentFunction.flow, f.breakStack and f.nextBreakId are the break      *)
(* contexts, f.tempLocals the temporary locals acquired and not released,  *)
(* f.log the fork, free, enterBreakContext and leaveBreakContext calls in  *)
(* order, f.errors the diagnostics reported, f.c the state of the compiler  *)
(* and f.functionFlags the flags of the function.  The operations that     *)
(* share a name with one above carry an F.                                 *)
(***************************************************************************)
\* no label
null == <<>>
\* "break|N", "continue|N", "repeat|N" and "caseI|N"
Label(kind, context) == <<kind, context>>
CaseLabel(i, context) == <<"case", i, context>>

ContinueStmt == [kind |-> "CONTINUE", expression |-> NoExpr, body |-> <<>>]
\* break and continue with a label
LabelledBreakStmt == [kind |-> "BREAK", expression |-> GlobalRef("label"), body |-> <<>>]
LabelledContinueStmt == [kind |-> "CONTINUE", expression |-> GlobalRef("label"), body |-> <<>>]
DoStmt(statement, condition) == [kind |-> "DO", expression |-> condition, body |-> <<statement>>]
WhileStmt(condition, statement) ==
  [kind |-> "WHILE", expression |-> condition, body |-> <<statement>>]
\* for (initializer; condition; incrementor) statement, NoExpr for an omitted part
ForStmt(initializer, condition, incrementor, statement) ==
  [kind |-> "FOR", expression |-> condition,
   body |-> <<statement, ExpressionStmt(initializer), ExpressionStmt(incrementor)>>]
\* case label: statements, NoExpr for default
SwitchCase(label, statements) == [kind |-> "CASE", expression |-> label, body |-> statements]
SwitchStmt(condition, cases) == [kind |-> "SWITCH", expression |-> condition, body |-> cases]
Ternary(condition, ifThen, ifElse) ==
  [kind |-> "TERNARY", value |-> 0, target |-> "", args |-> <<condition, ifThen, ifElse>>]

FlowObject(parentFlow, flowFlags, breakLabel, continueLabel) ==
  [parentFlow |-> parentFlow, flags |-> flowFlags, breakLabel |-> breakLabel,
   continueLabel |-> continueLabel, freed |-> 0]

\* a function instance as its constructor leaves it, with its flags (CONSTRUCTOR), when
\* the compiler in state c starts to compile it: one flow, no break context
FunctionConstructed(c, functionFlags) ==
  [c |-> c, functionFlags |-> functionFlags, flows |-> <<FlowObject(0, {}, null, null)>>,
   flow |-> 1, breakStack |-> <<>>, nextBreakId |-> 0, tempLocals |-> {}, log |-> <<>>,
   errors |-> <<>>]

\* the function without the state of the compiler
FunctionOnly(f) == [field \in DOMAIN f \ {"c"} |-> f[field]]

\* what a lowering routine returns: the function after it, the node, and currentType
Compiled(f, x, type) == [f |-> f, x |-> x, type |-> type]

\* Flow.fork() of flow parentFlow: the child is the newest flow
Flow_fork(f, parentFlow) ==
  [f EXCEPT !.flows = Append(@, FlowObject(parentFlow, f.flows[parentFlow].flags \cap ContextFlags,
                                           f.flows[parentFlow].breakLabel,
                                           f.flows[parentFlow].continueLabel)),
            !.log = Append(@, <<"fork", Len(f.flows) + 1>>)]
newestFlow(f) == Len(f.flows)

\* Flow.free(): returns the parent
Flow_free(f, id) ==
  [f EXCEPT !.flows[id].freed = @ + 1, !.log = Append(@, <<"free", id>>)]

\* bug variant: the flow is left without being freed
switchBack_noFree(f, id) == [f EXCEPT !.flow = f.flows[id].parentFlow]

\* currentFunction.flow = flow.free()
switchBack(f, id) == [Flow_free(f, id) EXCEPT !.flow = f.flows[id].parentFlow]

\* Flow.set, Flow.unset
Flow_set(f, id, bits) == [f EXCEPT !.flows[id].flags = @ \cup bits]
Flow_unset(f, id, bits) == [f EXCEPT !.flows[id].flags = @ \ bits]
\* Flow.isAny
Flow_isAny(f, id, bits) == f.flows[id].flags \cap bits # {}

\* a forked flow made current, with the labels of a break context
enterFlow(f, breakLabel, continueLabel) ==
  Bind(Flow_fork(f, f.flow), LAMBDA g :
    [g EXCEPT !.flow = newestFlow(g),
              !.flows[newestFlow(g)].breakLabel = breakLabel,
              !.flows[newestFlow(g)].continueLabel = continueLabel])

\* Function.enterBreakContext(): the context is f.nextBreakId before the call
enterBreakContext(f) ==
  [f EXCEPT !.breakStack = Append(@, f.nextBreakId), !.nextBreakId = @ + 1,
            !.log = Append(@, <<"enterBreakContext", f.nextBreakId>>)]

\* Function.leaveBreakContext()
leaveBreakContext(f) ==
  [f EXCEPT !.breakStack = SubSeq(@, 1, Len(@) - 1),
            !.log = Append(@, <<"leaveBreakContext", f.breakStack[Len(f.breakStack)]>>)]

\* this.error(code) while compiling the function
report(f, code) == [f EXCEPT !.errors = Append(@, code)]

RECURSIVE reportEach(_, _, _)
reportEach(f, codes, i) ==
  IF i > Len(codes) THEN f ELSE reportEach(report(f, codes[i]), codes, i + 1)

\* nodes: Node(op, label, index, children), index the value of a constant
createNop == Node("Nop", null, 0, <<>>)
createConst(v) == Node("Const", null, v, <<>>)
createBreak(label) == Node("Break", label, 0, <<>>)
createBreakIf(label, condition) == Node("Break", label, 0, <<condition>>)
createLoop(label, body) == Node("Loop", label, 0, <<body>>)
createIf(condition, ifTrue) == Node("If", null, 0, <<condition, ifTrue>>)
createIfElse(condition, ifTrue, ifFalse) == Node("If", null, 0, <<condition, ifTrue, ifFalse>>)
createReturn == Node("Return", null, 0, <<>>)
createDrop(x) == Node("Drop", null, 0, <<x>>)
createEqz(x) == Node("Unary.EqzI32", null, 0, <<x>>)
createLabelledBlock(label, children) == Node("Block", label, 0, children)
createUnreachableNode == Node("Unreachable", null, 0, <<>>)

\* module.precomputeExpression(expr) is a constant of type i32
isConstI32(x) == x.op = "Const"

\* makeIsTrueish(expr, type)
makeIsTrueish(x, type) ==
  IF type \in {"i64", "f32", "f64"} \/ (type = "usize" /\ isWasm64)
  THEN Node("Binary.Ne", null, 0, <<x>>)
  ELSE x

\* the lowering of an expression or of a statement, by its kind
RECURSIVE compileNode(_, _, _, _)
\* compileExpression(expression, contextualType, ConversionKind.NONE, WrapMode.NONE)
compileExpressionF(f, e, contextualType) == compileNode(f, "expression", e, contextualType)
\* compileStatement(statement)
compileStatementF(f, stmt) == compileNode(f, "statement", stmt, "void")

RECURSIVE compileStatementsF(_, _, _, _, _)
RECURSIVE compileCases(_, _, _, _, _, _, _)

\* a literal, true or null
compileLeaf(f, e, contextualType) ==
  Bind(compileExpressionRetainType(e, contextualType, "NONE"), LAMBDA t :
    Compiled(reportEach(f, t.errors, 1),
             IF t.x = <<"Const">> THEN createConst(e.value) ELSE Node(e.kind, null, e.value, <<>>),
             t.currentType))

\* the condition of an if, a loop or a ternary: compiled, and compiled a second time
\* where the first is precomputed and is not a constant
compileCondition(f, condition, precomputes) ==
  Bind(compileExpressionF(f, condition, "bool"), LAMBDA first :
    Bind(Compiled(first.f, makeIsTrueish(first.x, first.type), first.type), LAMBDA condExpr :
      IF precomputes /\ ~isConstI32(condExpr.x)
      THEN Bind(compileExpressionF(condExpr.f, condition, "bool"), LAMBDA again :
             Compiled(again.f, makeIsTrueish(again.x, again.type), again.type))
      ELSE condExpr))

\* compileTernaryExpression(expression, contextualType)
compileTernaryExpression(f, e, contextualType) ==
  Bind(compileCondition(f, e.args[1], ~noTreeShaking \/ genericContext), LAMBDA condExpr :
    IF (~noTreeShaking \/ genericContext) /\ isConstI32(condExpr.x)
    THEN compileExpressionF(condExpr.f, IF condExpr.x.index # 0 THEN e.args[2] ELSE e.args[3],
                            contextualType)
    ELSE
      LET parentFlow == f.flow IN
      Bind(compileExpressionF([Flow_fork(condExpr.f, parentFlow) EXCEPT !.flow = Len(condExpr.f.flows) + 1],
                              e.args[2], contextualType), LAMBDA ifThen :
        LET ifThenFlow == ifThen.f.flow IN
        Bind(Flow_free(ifThen.f, ifThenFlow), LAMBDA freed :
          Bind(compileExpressionF([Flow_fork(freed, parentFlow) EXCEPT !.flow = Len(freed.flows) + 1],
                                  e.args[3], contextualType), LAMBDA ifElse :
            LET ifElseFlow == ifElse.f.flow IN
            Bind(switchBack(ifElse.f, ifElseFlow), LAMBDA back :
              Bind([back EXCEPT !.flows[parentFlow] =
                      inheritMutual(@, back.flows[ifThenFlow], back.flows[ifElseFlow])],
                   LAMBDA merged :
                IF commonCompatible(ifThen.type, ifElse.type, FALSE) = NoType
                THEN Compiled(report(merged, "Type_0_is_not_assignable_to_type_1"),
                              createUnreachableNode, contextualType)
                ELSE Compiled(merged, createIfElse(condExpr.x, ifThen.x, ifElse.x),
                              commonCompatible(ifThen.type, ifElse.type, FALSE))))))))

\* a terminating statement after which the block needs an unreachable: any but an
\* unreachable, a return and an unconditional break
needsExplicitUnreachable(x) ==
  ~(x.op \in {"Unreachable", "Return"} \/ (x.op = "Break" /\ x.children = <<>>))

\* compileStatements(statements), flow the current flow when it is called: the nodes of
\* the statements, unnamed blocks flattened and nops dropped, up to a terminating one
compileStatementsF(f, branch, stmts, i, acc) ==
  IF i > Len(stmts) THEN [f |-> f, x |-> acc]
  ELSE Bind(compileStatementF(f, stmts[i]), LAMBDA r :
         LET pushed == acc \o (CASE r.x.op = "Nop" -> <<>>
                                 [] r.x.op = "Block" /\ r.x.label = null -> r.x.children
                                 [] OTHER -> <<r.x>>)
         IN IF Flow_isAny(r.f, branch, AnyTerminating)
            THEN [f |-> r.f,
                  x |-> pushed \o (IF needsExplicitUnreachable(r.x)
                                   THEN <<createUnreachableNode>> ELSE <<>>)]
            ELSE compileStatementsF(r.f, branch, stmts, i + 1, pushed))

\* compileBlockStatement(statement)
compileBlockStatementF(f, stmt) ==
  LET parentFlow == f.flow IN
  Bind(enterFlow(f, f.flows[parentFlow].breakLabel, f.flows[parentFlow].continueLabel),
       LAMBDA forked :
    LET branch == forked.flow IN
    Bind(compileStatementsF(forked, branch, stmt.body, 1, <<>>), LAMBDA stmts :
      Bind(switchBack(stmts.f, branch), LAMBDA back :
        [f |-> [back EXCEPT !.flows[parentFlow] = inherit(@, back.flows[branch])],
         x |-> CASE Len(stmts.x) = 0 -> createNop
                 [] Len(stmts.x) = 1 -> stmts.x[1]
                 [] OTHER -> createLabelledBlock(null, stmts.x)])))

\* compileBreakStatement(statement)
compileBreakStatementF(f, stmt) ==
  IF stmt.expression # NoExpr
  THEN [f |-> report(f, "Operation_not_supported"), x |-> createUnreachableNode]
  ELSE IF f.flows[f.flow].breakLabel = null
  THEN [f |-> report(f, "A_break_statement_can_only_be_used_within_an_enclosing_iteration_or_switch_statement"),
        x |-> createUnreachableNode]
  ELSE [f |-> Flow_set(f, f.flow, {"BREAKS"}), x |-> createBreak(f.flows[f.flow].breakLabel)]

\* compileContinueStatement(statement)
compileContinueStatement(f, stmt) ==
  IF stmt.expression # NoExpr
  THEN [f |-> report(f, "Operation_not_supported"), x |-> createUnreachableNode]
  ELSE IF f.flows[f.flow].continueLabel = null
  THEN [f |-> report(f, "A_continue_statement_can_only_be_used_within_an_enclosing_iteration_statement"),
        x |-> createUnreachableNode]
  ELSE [f |-> Flow_set(f, f.flow, {"CONTINUES"}),
        x |-> createBreak(f.flows[f.flow].continueLabel)]

\* the flags of a loop's flow that do not leave the loop
BreakAndContinueFlags ==
  {"BREAKS", "CONDITIONALLY_BREAKS", "CONTINUES", "CONDITIONALLY_CONTINUES"}

\* compileDoStatement(statement)
compileDoStatement(f, stmt) ==
  Bind(enterBreakContext(f), LAMBDA entered :
    LET label == f.nextBreakId
        parentFlow == f.flow
        breakLabel == Label("break", label)
        continueLabel == Label("continue", label)
    IN
    Bind(enterFlow(entered, breakLabel, continueLabel), LAMBDA forked :
      LET branch == forked.flow IN
      Bind(compileStatementF(forked, stmt.body[1]), LAMBDA body :
        Bind(compileExpressionF(body.f, stmt.expression, "i32"), LAMBDA cond :
          Bind(leaveBreakContext(switchBack(cond.f, branch)), LAMBDA back :
            LET terminated == Flow_isAny(back, branch, AnyTerminating)
                unset == Flow_unset(back, branch, BreakAndContinueFlags)
                condExpr == makeIsTrueish(cond.x, cond.type)
            IN [f |-> [unset EXCEPT !.flows[parentFlow] = inherit(@, unset.flows[branch])],
                x |-> createLabelledBlock(breakLabel,
                        <<createLoop(continueLabel,
                                     IF terminated THEN body.x
                                     ELSE createLabelledBlock(null,
                                            <<body.x, createBreakIf(continueLabel, condExpr)>>))>>
                          \o (IF terminated THEN <<createUnreachableNode>> ELSE <<>>))])))))

\* compileWhileStatement(statement)
compileWhileStatement(f, stmt) ==
  Bind(compileCondition(f, stmt.expression, ~noTreeShaking \/ genericContext), LAMBDA condExpr :
    IF (~noTreeShaking \/ genericContext) /\ isConstI32(condExpr.x) /\ condExpr.x.index = 0
    THEN [f |-> condExpr.f, x |-> createNop]
    ELSE
      Bind(enterBreakContext(condExpr.f), LAMBDA entered :
        LET label == condExpr.f.nextBreakId
            parentFlow == f.flow
            breakLabel == Label("break", label)
            continueLabel == Label("continue", label)
        IN
        Bind(enterFlow(entered, breakLabel, continueLabel), LAMBDA forked :
          LET branch == forked.flow IN
          Bind(compileStatementF(forked, stmt.body[1]), LAMBDA body :
            LET alwaysTrue == FALSE  \* "var alwaysTrue = false; // TODO"
                terminated == Flow_isAny(body.f, branch, AnyTerminating)
            IN
            Bind(Flow_unset(leaveBreakContext(switchBack(body.f, branch)), branch,
                            BreakAndContinueFlags), LAMBDA back :
              [f |-> [back EXCEPT !.flows[parentFlow] =
                        IF alwaysTrue THEN inherit(@, back.flows[branch])
                        ELSE inheritConditional(@, back.flows[branch])],
               x |-> createLabelledBlock(breakLabel,
                       <<createLoop(continueLabel,
                           createIf(condExpr.x,
                                    IF terminated THEN body.x
                                    ELSE createLabelledBlock(null,
                                           <<body.x, createBreak(continueLabel)>>)))>>)])))))

\* compileForStatement: the condition, compiled twice, and whether it is always true
compileForCondition(f, condition) ==
  IF condition # NoExpr
  THEN Bind(compileCondition(f, condition, TRUE), LAMBDA condExpr :
         [f |-> condExpr.f, x |-> condExpr.x,
          alwaysTrue |-> isConstI32(condExpr.x) /\ condExpr.x.index # 0])
  ELSE [f |-> f, x |-> createConst(1), alwaysTrue |-> TRUE]

\* compileForStatement(statement)
compileForStatement(f, stmt) ==
  Bind(enterBreakContext(f), LAMBDA entered :
    LET label == f.nextBreakId
        parentFlow == f.flow
        breakLabel == Label("break", label)
        continueLabel == Label("continue", label)
        repeatLabel == Label("repeat", label)
        initializer == stmt.body[2]
        incrementor == stmt.body[3].expression
        bodyStatement ==
          IF stmt.body[1].kind = "BLOCK" /\ Len(stmt.body[1].body) = 1
          THEN stmt.body[1].body[1] ELSE stmt.body[1]
    IN
    Bind(enterFlow(entered, breakLabel, continueLabel), LAMBDA forked :
      LET branch == forked.flow IN
      Bind(IF initializer.expression # NoExpr THEN compileStatementF(forked, initializer)
           ELSE [f |-> forked, x |-> createNop], LAMBDA init :
        Bind(compileForCondition(init.f, stmt.expression), LAMBDA cond :
          Bind(IF incrementor # NoExpr THEN compileExpressionF(cond.f, incrementor, "void")
               ELSE Compiled(cond.f, createNop, "void"), LAMBDA incr :
            Bind(compileStatementF(incr.f, bodyStatement), LAMBDA body :
              Bind(leaveBreakContext(switchBack(body.f, branch)), LAMBDA back :
                LET usesContinue ==
                      Flow_isAny(back, branch, {"CONTINUES", "CONDITIONALLY_CONTINUES"})
                    unset == Flow_unset(back, branch, BreakAndContinueFlags)
                    exit == createBreakIf(breakLabel, createEqz(cond.x))
                    repeatBlock ==
                      (IF usesContinue
                       THEN <<createLabelledBlock(continueLabel, <<exit, body.x>>)>>
                       ELSE <<exit, body.x>>)
                        \o (IF incrementor # NoExpr THEN <<incr.x>> ELSE <<>>)
                        \o <<createBreak(repeatLabel)>>
                IN [f |-> [unset EXCEPT !.flows[parentFlow] =
                             IF cond.alwaysTrue THEN inherit(@, unset.flows[branch])
                             ELSE inheritConditional(@, unset.flows[branch])],
                    x |-> createLabelledBlock(breakLabel,
                            (IF initializer.expression # NoExpr THEN <<init.x>> ELSE <<>>)
                              \o <<createLoop(repeatLabel,
                                              createLabelledBlock(null, repeatBlock))>>)])))))))

\* Function.getTempLocal(type): the free temporary local of the lowest index
tempLocalIndex(f) == CHOOSE i \in 0..Cardinality(f.tempLocals) :
                       i \notin f.tempLocals /\ \A j \in 0..(i - 1) : j \in f.tempLocals
getTempLocal(f) == [f EXCEPT !.tempLocals = @ \cup {tempLocalIndex(f)}]
\* Function.freeTempLocal(local)
freeTempLocal(f, index) == [f EXCEPT !.tempLocals = @ \ {index}]

\* the classes instantiated in function bodies, their constructors and their fields:
\*   class P { x: i32 = 1; readonly r: i32; readonly ri: i32 = 2; y: i32 }
\*   class K { constructor(a: i32) }          class A: Array<i32>, [] and []=
\*   class R: an array of which [] only reads
ClassTypes == {"P", "K", "A", "R"}
FieldDecl(name, fieldFlags, initializer) ==
  [name |-> name, flags |-> fieldFlags, initializer |-> initializer]
ClassInfo(class) ==
  CASE class = "P" ->
         [constructorInstance |-> "",
          fields |-> <<FieldDecl("x", {}, Lit(1)), FieldDecl("r", {"READONLY"}, NoExpr),
                       FieldDecl("ri", {"READONLY"}, Lit(2)), FieldDecl("y", {}, NoExpr)>>,
          overloads |-> {}]
    [] class = "K" -> [constructorInstance |-> "ctor", fields |-> <<>>, overloads |-> {}]
    [] class = "A" ->
         [constructorInstance |-> "", fields |-> <<>>,
          overloads |-> {"INDEXED_GET", "INDEXED_SET"}]
    [] class = "R" -> [constructorInstance |-> "", fields |-> <<>>, overloads |-> {"INDEXED_GET"}]

\* the field of class P with a name
fieldOf(class, name) ==
  CHOOSE field \in Range(ClassInfo(class).fields) : field.name = name

\* this.<field> in a method or the constructor of class P
ThisField(name) == [kind |-> "PROPERTYACCESS", value |-> 1, target |-> name, args |-> <<>>]
\* <array>[index] with <array> of class A or R
ElementAccess(class, index) ==
  [kind |-> "ELEMENTACCESS", value |-> 0, target |-> class, args |-> <<index>>]
\* target = value
Assignment(target, valueExpression) == BinaryE("=", target, valueExpression)
\* operand++
PostfixE(operand) == [kind |-> "UNARYPOSTFIX", value |-> 0, target |-> "++", args |-> <<operand>>]
\* [elements]
ArrayLiteral(elements) == [kind |-> "LITERAL", value |-> 0, target |-> "array", args |-> elements]
\* { name: value, ... }: each argument is a Field
ObjectLiteral(fields) ==
  [kind |-> "LITERAL", value |-> 0, target |-> "object", args |-> fields]
Field(name, valueExpression) ==
  [kind |-> "FIELD", value |-> 0, target |-> name, args |-> <<valueExpression>>]
\* new <class>()
NewE(class) == [kind |-> "NEW", value |-> 0, target |-> class, args |-> <<>>]

\* nodes that name a global or a local: the name is the label
createSetGlobalNode(name, x) == Node("SetGlobal", <<name>>, 0, <<x>>)
createGetGlobalNode(name) == Node("GetGlobal", <<name>>, 0, <<>>)
createSetLocalNode(index, x) == Node("SetLocal", null, index, <<x>>)
createGetLocalNode(index) == Node("GetLocal", null, index, <<>>)
createStore(field, x) == Node("Store", <<field>>, 0, <<x>>)

\* compileAssignmentWithValue, case GLOBAL
assignGlobal(f, g, x, tee) ==
  Bind(Call(f.c, "compileGlobal", <<g>>), LAMBDA global :
    Bind([f EXCEPT !.c = global.c], LAMBDA compiled :
      IF ~global.ok THEN Compiled(compiled, createUnreachableNode, "void")
      ELSE IF "CONST" \in GlobalDecl(g).flags
      THEN Compiled(report(compiled,
                           "Cannot_assign_to_0_because_it_is_a_constant_or_a_read_only_property"),
                    createUnreachableNode, IF tee THEN global.c.globalType[g] ELSE "void")
      ELSE IF tee
      THEN Compiled(compiled,
                    createLabelledBlock(null, <<createSetGlobalNode(g, x), createGetGlobalNode(g)>>),
                    global.c.globalType[g])
      ELSE Compiled(compiled, createSetGlobalNode(g, x), "void")))

\* compileAssignmentWithValue, case FIELD: a field of class P
assignField(f, name, x, tee) ==
  LET field == fieldOf("P", name) IN
  IF "READONLY" \in field.flags
       /\ ~("CONSTRUCTOR" \in f.functionFlags \/ field.initializer # NoExpr)
  THEN Compiled(report(f, "Cannot_assign_to_0_because_it_is_a_constant_or_a_read_only_property"),
                createUnreachableNode, "void")
  ELSE IF tee
  THEN Compiled(f, createLabelledBlock(null,
                     <<createSetLocalNode(tempLocalIndex(f), x),
                       createStore(name, createGetLocalNode(tempLocalIndex(f))),
                       createGetLocalNode(tempLocalIndex(f))>>), "i32")
  ELSE Compiled(f, createStore(name, x), "void")

\* compileAssignmentWithValue, case CLASS with an element expression
assignElement(f, target, x, tee) ==
  IF "INDEXED_GET" \notin ClassInfo(target.target).overloads
  THEN Compiled(report(f, "Index_signature_is_missing_in_type_0"), createUnreachableNode, "void")
  ELSE IF "INDEXED_SET" \notin ClassInfo(target.target).overloads
  THEN Compiled(report(f, "Index_signature_in_type_0_only_permits_reading"),
                createUnreachableNode, IF tee THEN "i32" ELSE "void")
  ELSE Bind(compileExpressionF(f, target.args[1], "i32"), LAMBDA elementExpr :
         IF tee
         THEN LET tempLocalTarget == tempLocalIndex(elementExpr.f)
                  held == getTempLocal(elementExpr.f)
                  tempLocalElement == tempLocalIndex(held)
              IN Compiled(freeTempLocal(held, tempLocalTarget),
                          createLabelledBlock(null,
                            <<Node("Call.[]=", null, 0,
                                   <<createSetLocalNode(tempLocalTarget, createGetLocalNode(0)),
                                     createSetLocalNode(tempLocalElement, elementExpr.x), x>>),
                              Node("Call.[]", null, 0,
                                   <<createGetLocalNode(tempLocalTarget),
                                     createGetLocalNode(tempLocalElement)>>)>>),
                          "i32")
         ELSE Compiled(elementExpr.f,
                       Node("Call.[]=", null, 0, <<createGetLocalNode(0), elementExpr.x, x>>),
                       "void"))

\* compileAssignmentWithValue(expression, valueWithCorrectType, tee)
compileAssignmentWithValue(f, target, x, tee) ==
  CASE target.kind = "IDENTIFIER" -> assignGlobal(f, target.target, x, tee)
    [] target.kind = "PROPERTYACCESS" -> assignField(f, target.target, x, tee)
    [] target.kind = "ELEMENTACCESS" -> assignElement(f, target, x, tee)
    [] OTHER -> Compiled(report(f, "Operation_not_supported"), createUnreachableNode, "void")

\* compileAssignment(expression, valueExpression, contextualType)
compileAssignment(f, e, contextualType) ==
  LET target == e.args[1]
      checked ==
        CASE target.kind = "IDENTIFIER" ->
               Bind(Call(f.c, "compileGlobal", <<target.target>>), LAMBDA global :
                 [f |-> [f EXCEPT !.c = global.c], ok |-> global.ok])
          [] target.kind = "PROPERTYACCESS" -> [f |-> f, ok |-> TRUE]
          [] target.kind = "ELEMENTACCESS" ->
               IF "INDEXED_SET" \in ClassInfo(target.target).overloads THEN [f |-> f, ok |-> TRUE]
               ELSE [f |-> report(f, IF "INDEXED_GET" \in ClassInfo(target.target).overloads
                                     THEN "Index_signature_in_type_0_only_permits_reading"
                                     ELSE "Index_signature_is_missing_in_type_0"),
                     ok |-> FALSE]
          [] OTHER -> [f |-> report(f, "Operation_not_supported"), ok |-> FALSE]
  IN IF ~checked.ok THEN Compiled(checked.f, createUnreachableNode, contextualType)
     ELSE Bind(compileExpressionF(checked.f, e.args[2], "i32"), LAMBDA valueExpr :
            compileAssignmentWithValue(valueExpr.f, target, valueExpr.x, contextualType # "void"))

\* the value an assignment target has: a global, a field, an element
compileTarget(f, target) ==
  CASE target.kind = "IDENTIFIER" ->
         Bind(Call(f.c, "compileGlobal", <<target.target>>), LAMBDA global :
           IF global.ok
           THEN Compiled([f EXCEPT !.c = global.c], createGetGlobalNode(target.target), "i32")
           ELSE Compiled([f EXCEPT !.c = global.c], createUnreachableNode, "i32"))
    [] target.kind = "PROPERTYACCESS" -> Compiled(f, Node("Load", <<target.target>>, 0, <<>>), "i32")
    [] target.kind = "ELEMENTACCESS" ->
         IF "INDEXED_GET" \in ClassInfo(target.target).overloads
         THEN Bind(compileExpressionF(f, target.args[1], "i32"), LAMBDA elementExpr :
                Compiled(elementExpr.f,
                         Node("Call.[]", null, 0, <<createGetLocalNode(0), elementExpr.x>>),
                         "i32"))
         ELSE Compiled(report(f, "Index_signature_is_missing_in_type_0"),
                       createUnreachableNode, "i32")

\* compileUnaryPostfixExpression(expression, contextualType), operator ++
compileUnaryPostfixExpression(f, e, contextualType) ==
  Bind(compileExpressionF(f, e.args[1], IF contextualType = "void" THEN "i32" ELSE contextualType),
       LAMBDA getValue :
    IF getValue.x.op = "Unreachable" THEN getValue
    ELSE IF getValue.type = "usize"
    THEN Compiled(report(getValue.f, "Operation_not_supported"), createUnreachableNode,
                  getValue.type)
    ELSE IF contextualType = "void"
    THEN compileAssignmentWithValue(getValue.f, e.args[1],
                                    Node("Binary.Add", null, 1, <<getValue.x>>), FALSE)
    ELSE LET tempLocal == tempLocalIndex(getValue.f) IN
         Bind(compileAssignmentWithValue(getTempLocal(getValue.f), e.args[1],
                Node("Binary.Add", null, 1, <<createGetLocalNode(tempLocal)>>), FALSE),
              LAMBDA setValue :
           Compiled(freeTempLocal(setValue.f, tempLocal),
                    createLabelledBlock(null, <<createSetLocalNode(tempLocal, getValue.x),
                                                setValue.x, createGetLocalNode(tempLocal)>>),
                    getValue.type)))

RECURSIVE compileElements(_, _, _, _)
\* compileArrayLiteral: the elements, compiled in order
compileElements(f, expressions, i, acc) ==
  IF i > Len(expressions) THEN [f |-> f, x |-> acc]
  ELSE Bind(compileExpressionF(f, expressions[i], "i32"), LAMBDA element :
         compileElements(element.f, expressions, i + 1, Append(acc, element.x)))

\* compileArrayLiteral(elementType, expressions, isConst, reportNode) for an Array<i32>
compileArrayLiteral(f, e) ==
  Bind(compileElements(f, e.args, 1, <<>>), LAMBDA compiledValues :
    IF \A i \in 1..Len(compiledValues.x) : isConstI32(compiledValues.x[i])
    THEN Compiled(compiledValues.f, Node("StaticArray", null, Len(compiledValues.x), <<>>),
                  "usize")
    ELSE LET tempLocal == tempLocalIndex(compiledValues.f)
             held == getTempLocal(compiledValues.f)
         IN Compiled(freeTempLocal(held, tempLocal),
                     createLabelledBlock(null,
                       <<createSetLocalNode(tempLocal, Node("Call.constructor", null, 0, <<>>))>>
                         \o [i \in 1..Len(compiledValues.x) |->
                               Node("Call.[]=", null, 0,
                                    <<createGetLocalNode(tempLocal), createConst(i - 1),
                                      compiledValues.x[i]>>)]
                         \o <<createGetLocalNode(tempLocal)>>),
                     "usize"))

RECURSIVE compileFieldValues(_, _, _, _, _, _)
\* compileObjectLiteral: the field values of class classReference, stored through tempLocal
compileFieldValues(f, classReference, tempLocal, fields, i, acc) ==
  IF i > Len(fields) THEN [f |-> f, x |-> acc.x, hasErrors |-> acc.hasErrors]
  ELSE IF \A field \in Range(ClassInfo(classReference).fields) : field.name # fields[i].target
  THEN compileFieldValues(report(f, "Property_0_does_not_exist_on_type_1"), classReference,
                          tempLocal, fields, i + 1, [acc EXCEPT !.hasErrors = TRUE])
  ELSE Bind(compileExpressionF(f, fields[i].args[1], "i32"), LAMBDA valueExpr :
         compileFieldValues(valueExpr.f, classReference, tempLocal, fields, i + 1,
                            [acc EXCEPT !.x = Append(@, createStore(fields[i].target, valueExpr.x))]))

\* compileObjectLiteral(expression, contextualType)
compileObjectLiteral(f, e, contextualType) ==
  IF contextualType \notin ClassTypes
  THEN Compiled(report(f, "Type_0_is_not_assignable_to_type_1"), createUnreachableNode,
                contextualType)
  ELSE IF ClassInfo(contextualType).constructorInstance # ""
            /\ Decl(ClassInfo(contextualType).constructorInstance).requiredParameters > 0
  THEN Compiled(report(f, "Constructor_of_class_0_must_not_require_any_arguments"),
                createUnreachableNode, contextualType)
  ELSE LET tempLocal == tempLocalIndex(f) IN
       Bind(compileFieldValues(getTempLocal(f), contextualType, tempLocal, e.args, 1,
                               [x |-> <<>>, hasErrors |-> FALSE]), LAMBDA exprs :
         IF exprs.hasErrors THEN Compiled(exprs.f, createUnreachableNode, "usize")
         ELSE Compiled(exprs.f,
                       createLabelledBlock(null,
                         <<createSetLocalNode(tempLocal, Node("Call.allocate", null, 0, <<>>))>>
                           \o exprs.x \o <<createGetLocalNode(tempLocal)>>),
                       "usize"))

RECURSIVE compileFieldInitializers(_, _, _, _, _)
\* makeAllocate: the stores that initialize the fields
compileFieldInitializers(f, tempLocal, fields, i, acc) ==
  IF i > Len(fields) THEN [f |-> f, x |-> acc]
  ELSE IF fields[i].initializer # NoExpr
  THEN Bind(compileExpressionF(f, fields[i].initializer, "i32"), LAMBDA initializer :
         compileFieldInitializers(initializer.f, tempLocal, fields, i + 1,
                                  Append(acc, createStore(fields[i].name, initializer.x))))
  ELSE compileFieldInitializers(f, tempLocal, fields, i + 1,
                                Append(acc, createStore(fields[i].name, createConst(0))))

\* makeAllocate(classInstance, reportNode)
makeAllocate(f, classInstance) ==
  LET tempLocal == tempLocalIndex(f) IN
  Bind(compileFieldInitializers(getTempLocal(f), tempLocal, ClassInfo(classInstance).fields, 1,
         <<createSetLocalNode(tempLocal, Node("Call.allocate", null, 0, <<>>))>>),
       LAMBDA initializers :
    Compiled(freeTempLocal(initializers.f, tempLocal),
             createLabelledBlock(null, Append(initializers.x, createGetLocalNode(tempLocal))),
             "usize"))

\* compileNewExpression(expression, contextualType)
compileNewExpression(f, e) ==
  IF ClassInfo(e.target).constructorInstance # ""
  THEN Compiled(f, Node("Call.constructor", null, 0, <<>>), "usize")
  ELSE makeAllocate(f, e.target)

\* compileExpression: "switch (expression.kind)"
compileExpressionKindF(f, e, contextualType) ==
  CASE e.kind = "TERNARY" -> compileTernaryExpression(f, e, contextualType)
    [] e.kind = "BINARY" /\ e.target = "=" -> compileAssignment(f, e, contextualType)
    [] e.kind = "UNARYPOSTFIX" -> compileUnaryPostfixExpression(f, e, contextualType)
    [] e.kind = "LITERAL" /\ e.target = "array" -> compileArrayLiteral(f, e)
    [] e.kind = "LITERAL" /\ e.target = "object" -> compileObjectLiteral(f, e, contextualType)
    [] e.kind = "NEW" -> compileNewExpression(f, e)
    [] e.kind \in {"IDENTIFIER", "PROPERTYACCESS", "ELEMENTACCESS"} -> compileTarget(f, e)
    [] OTHER -> compileLeaf(f, e, contextualType)

\* the flags a switch with a default case hands to its parent if all its cases set them
SwitchFlags == {"RETURNS", "RETURNS_WRAPPED", "THROWS", "ALLOCATES"}

RECURSIVE compileCaseStatements(_, _, _, _, _)
\* compileSwitchStatement: the statements of one case, up to a terminating one
compileCaseStatements(f, branch, stmts, j, acc) ==
  IF j > Len(stmts) THEN [f |-> f, x |-> acc, terminated |-> FALSE]
  ELSE Bind(compileStatementF(f, stmts[j]), LAMBDA r :
         IF r.x.op = "Nop" THEN compileCaseStatements(r.f, branch, stmts, j + 1, acc)
         ELSE IF Flow_isAny(r.f, branch, AnyTerminating)
         THEN [f |-> r.f, x |-> Append(acc, r.x), terminated |-> TRUE]
         ELSE compileCaseStatements(r.f, branch, stmts, j + 1, Append(acc, r.x)))

\* compileSwitchStatement: the cases from the i-th on, each in a fork of the parent flow;
\* always: the flags every case looked at so far has set
compileCases(f, parentFlow, context, cases, i, currentBlock, always) ==
  IF i > Len(cases) THEN [f |-> f, x |-> currentBlock, always |-> always]
  ELSE
    LET breakLabel == Label("break", context)
        isLast == i = Len(cases)
        nextLabel == IF isLast THEN breakLabel ELSE CaseLabel(i, context)
    IN
    Bind(enterFlow([f EXCEPT !.flow = parentFlow], breakLabel,
                   f.flows[parentFlow].continueLabel), LAMBDA forked :
      LET branch == forked.flow IN
      Bind(compileCaseStatements(forked, branch, cases[i].body, 1, <<currentBlock>>), LAMBDA stmts :
        compileCases(switchBack(Flow_unset(stmts.f, branch, {"BREAKS", "CONDITIONALLY_BREAKS"}),
                                branch),
                     parentFlow, context, cases, i + 1,
                     createLabelledBlock(nextLabel, stmts.x),
                     IF stmts.terminated \/ isLast
                     THEN always \cap stmts.f.flows[branch].flags ELSE always)))

RECURSIVE compileCaseLabels(_, _, _, _, _, _)
\* compileSwitchStatement: one br_if per labelled case
compileCaseLabels(f, context, tempLocal, cases, i, acc) ==
  IF i > Len(cases) THEN [f |-> f, x |-> acc]
  ELSE IF cases[i].expression = NoExpr
  THEN compileCaseLabels(f, context, tempLocal, cases, i + 1, acc)
  ELSE Bind(compileExpressionF(f, cases[i].expression, "i32"), LAMBDA label :
         compileCaseLabels(label.f, context, tempLocal, cases, i + 1,
                           Append(acc, createBreakIf(CaseLabel(i - 1, context),
                                         Node("Binary.EqI32", null, tempLocal, <<label.x>>)))))

\* the index of the default case, from 0, or -1
defaultIndexOf(cases) ==
  IF \E i \in 1..Len(cases) : cases[i].expression = NoExpr
  THEN (CHOOSE i \in 1..Len(cases) :
          cases[i].expression = NoExpr
            /\ \A j \in (i + 1)..Len(cases) : cases[j].expression # NoExpr) - 1
  ELSE -1

\* compileSwitchStatement(statement)
compileSwitchStatement(f, stmt) ==
  IF Len(stmt.body) = 0
  THEN Bind(compileExpressionF(f, stmt.expression, "void"), LAMBDA r : [f |-> r.f, x |-> r.x])
  ELSE
    LET context == f.nextBreakId
        parentFlow == f.flow
        tempLocal == tempLocalIndex(f)
        defaultIndex == defaultIndexOf(stmt.body)
    IN
    Bind(compileExpressionF(getTempLocal(enterBreakContext(f)), stmt.expression, "i32"),
         LAMBDA condition :
      Bind(compileCaseLabels(condition.f, context, tempLocal, stmt.body, 1,
                             <<Node("SetLocal", null, tempLocal, <<condition.x>>)>>),
           LAMBDA breaks :
        Bind(compileCases(freeTempLocal(breaks.f, tempLocal), parentFlow, context, stmt.body, 1,
                          createLabelledBlock(CaseLabel(0, context),
                            Append(breaks.x,
                                   createBreak(IF defaultIndex >= 0
                                               THEN CaseLabel(defaultIndex, context)
                                               ELSE Label("break", context)))),
                          SwitchFlags), LAMBDA cases :
          Bind(leaveBreakContext(cases.f), LAMBDA left :
            [f |-> IF defaultIndex >= 0 THEN Flow_set(left, parentFlow, cases.always) ELSE left,
             x |-> cases.x]))))

eliminatesBranches_never == FALSE

\* compileIfStatement tries to eliminate a branch: "!this.options.noTreeShaking ||
\* this.currentFunction.isAny(CommonFlags.GENERIC | CommonFlags.GENERIC_CONTEXT)"
eliminatesBranches == ~noTreeShaking \/ genericContext

\* compileIfStatement(statement)
compileIfStatementF(f, stmt) ==
  Bind(compileCondition(f, stmt.expression, eliminatesBranches), LAMBDA condExpr :
    IF eliminatesBranches /\ isConstI32(condExpr.x)
    THEN IF condExpr.x.index # 0 THEN compileStatementF(condExpr.f, stmt.body[1])
         ELSE IF Len(stmt.body) = 2 THEN compileStatementF(condExpr.f, stmt.body[2])
         ELSE [f |-> condExpr.f, x |-> createNop]
    ELSE
      LET parentFlow == condExpr.f.flow
          keep(g) == enterFlow(g, g.flows[parentFlow].breakLabel, g.flows[parentFlow].continueLabel)
      IN
      Bind(keep(condExpr.f), LAMBDA forkedTrue :
        LET ifTrueFlow == forkedTrue.flow IN
        Bind(compileStatementF(forkedTrue, stmt.body[1]), LAMBDA ifTrue :
          Bind(switchBack(ifTrue.f, ifTrueFlow), LAMBDA back :
            IF Len(stmt.body) = 2
            THEN Bind(keep(back), LAMBDA forkedFalse :
                   LET ifFalseFlow == forkedFalse.flow IN
                   Bind(compileStatementF(forkedFalse, stmt.body[2]), LAMBDA ifFalse :
                     Bind(switchBack(ifFalse.f, ifFalseFlow), LAMBDA done :
                       [f |-> [done EXCEPT !.flows[parentFlow] =
                                 inheritMutual(@, done.flows[ifTrueFlow], done.flows[ifFalseFlow])],
                        x |-> createIfElse(condExpr.x, ifTrue.x, ifFalse.x)])))
            ELSE [f |-> [back EXCEPT !.flows[parentFlow] =
                           inheritConditional(@, back.flows[ifTrueFlow])],
                  x |-> createIf(condExpr.x, ifTrue.x)]))))

\* compileExpressionStatement(statement)
compileExpressionStatement(f, stmt) ==
  Bind(compileExpressionF(f, stmt.expression, "void"), LAMBDA r :
    [f |-> r.f, x |-> IF r.type # "void" THEN createDrop(r.x) ELSE r.x])

\* compileStatement: "switch (statement.kind)"
compileStatementKindF(f, stmt) ==
  CASE stmt.kind = "RETURN" -> [f |-> Flow_set(f, f.flow, {"RETURNS"}), x |-> createReturn]
    [] stmt.kind = "THROW" ->
         [f |-> Flow_set(f, f.flow, {"THROWS", "RETURNS"}), x |-> Node("Abort", null, 0, <<>>)]
    [] stmt.kind = "BREAK" -> compileBreakStatementF(f, stmt)
    [] stmt.kind = "CONTINUE" -> compileContinueStatement(f, stmt)
    [] stmt.kind = "EXPRESSION" -> compileExpressionStatement(f, stmt)
    [] stmt.kind = "BLOCK" -> compileBlockStatementF(f, stmt)
    [] stmt.kind = "IF" -> compileIfStatementF(f, stmt)
    [] stmt.kind = "DO" -> compileDoStatement(f, stmt)
    [] stmt.kind = "WHILE" -> compileWhileStatement(f, stmt)
    [] stmt.kind = "FOR" -> compileForStatement(f, stmt)
    [] stmt.kind = "SWITCH" -> compileSwitchStatement(f, stmt)

compileNode(f, kind, node, contextualType) ==
  IF kind = "statement" THEN compileStatementKindF(f, node)
  ELSE compileExpressionKindF(f, node, contextualType)

\* ---------------------------------------------------------------------------------------
\* Integer conversions on values: the IR convertExpression emits between integer types,
\* and the 32-bit value that IR computes
\* ---------------------------------------------------------------------------------------

\* the integer types, short ones first
ShortIntegerTypes == {"i8", "u8", "i16", "u16", "bool"}
IntegerTypes == ShortIntegerTypes \cup {"i32", "u32", "i64", "u64"}

\* Type.MIN_VALUE .. Type.MAX_VALUE of a short integer type, as the values of a 32-bit slot
valueRange(type) ==
  CASE type = "i8" -> -128..127
    [] type = "u8" -> 0..255
    [] type = "i16" -> -32768..32767
    [] type = "u16" -> 0..65535
    [] type = "bool" -> 0..1

\* a 64-bit value is its upper and its lower 32 bits, each as a signed 32-bit integer
I64(hi, lo) == <<hi, lo>>

createUnaryNode(op, x) == Node("Unary", <<op>>, 0, <<x>>)
createBinaryNode(op, l, r) == Node("Binary", <<op>>, 0, <<l, r>>)

\* the signed value of the lowest bits of v
signExtend(v, bits) ==
  LET low == v % (2 ^ bits)
  IN IF low >= 2 ^ (bits - 1) THEN low - 2 ^ bits ELSE low

\* the value an expression computes when the local it reads holds the value local
RECURSIVE valueOf(_, _)
valueOf(x, local) ==
  CASE x.op = "Const" -> x.index
    [] x.op = "GetLocal" -> local
    [] x.op = "Unary" ->
         (LET v == valueOf(x.children[1], local)
          IN CASE x.label[1] = "ExtendI8ToI32" -> signExtend(v, 8)
               [] x.label[1] = "ExtendI16ToI32" -> signExtend(v, 16)
               [] x.label[1] = "WrapI64" -> v[2]
               [] x.label[1] = "ExtendI32" -> I64(IF v < 0 THEN -1 ELSE 0, v)
               [] x.label[1] = "ExtendU32" -> I64(0, v))
    [] x.op = "Binary" ->
         (LET l == valueOf(x.children[1], local)
              r == valueOf(x.children[2], local)
          IN CASE x.label[1] = "ShlI32" -> signExtend(l, 32 - r) * (2 ^ r)
               [] x.label[1] = "ShrI32" -> l \div (2 ^ r)
               [] x.label[1] = "AndI32" -> l % (r + 1))   \* r is 0xff, 0xffff or 1

\* Flow.canOverflow(expr, type): a constant in the range of the type cannot overflow, any
\* other expression is taken to
canOverflowValue(x, type) == ~(x.op = "Const" /\ x.index \in valueRange(type))

\* ensureSmallIntegerWrap(expr, type), with or without Feature.SIGN_EXTENSION
shiftPair(x, bits) ==
  createBinaryNode("ShrI32", createBinaryNode("ShlI32", x, createConst(bits)), createConst(bits))

ensureSmallIntegerWrapValue(x, type, signExtension) ==
  IF type \notin ShortIntegerTypes \/ ~canOverflowValue(x, type) THEN x
  ELSE CASE type = "i8" ->
              IF signExtension THEN createUnaryNode("ExtendI8ToI32", x) ELSE shiftPair(x, 24)
         [] type = "i16" ->
              IF signExtension THEN createUnaryNode("ExtendI16ToI32", x) ELSE shiftPair(x, 16)
         [] type = "u8" -> createBinaryNode("AndI32", x, createConst(255))
         [] type = "u16" -> createBinaryNode("AndI32", x, createConst(65535))
         [] type = "bool" -> createBinaryNode("AndI32", x, createConst(1))

\* convertExpression(expr, fromType, toType, conversionKind, wrapMode) between integer
\* types: the "int to int" branch and the trailing wrap
convertInteger(x, fromType, toType, wrapMode, signExtension) ==
  LET long(type) == type \in {"i64", "u64"}
      signed(type) == type \in {"i8", "i16", "i32", "i64"}
      size(type) == CASE type = "bool" -> 1
                      [] type \in {"i8", "u8"} -> 8
                      [] type \in {"i16", "u16"} -> 16
                      [] type \in {"i32", "u32"} -> 32
                      [] type \in {"i64", "u64"} -> 64
      converted ==
        IF long(fromType)
        THEN [x |-> IF ~long(toType) THEN createUnaryNode("WrapI64", x) ELSE x,
              wrapMode |-> wrapMode]
        ELSE IF long(toType)
        THEN [x |-> createUnaryNode(IF signed(fromType) THEN "ExtendI32" ELSE "ExtendU32",
                                ensureSmallIntegerWrapValue(x, fromType, signExtension)),
              wrapMode |-> "NONE"]
        ELSE IF fromType \in ShortIntegerTypes /\ size(fromType) < size(toType)
        THEN [x |-> ensureSmallIntegerWrapValue(x, fromType, signExtension),
              wrapMode |-> "NONE"]
        ELSE [x |-> x, wrapMode |-> wrapMode]
  IN [x |-> IF converted.wrapMode = "WRAP"
            THEN ensureSmallIntegerWrapValue(converted.x, toType, signExtension)
            ELSE converted.x,
      currentType |-> toType]

(***************************************************************************)
(* ================= Calls into the compiler (actions) =================== *)
(***************************************************************************)
\* the compiler state the constructor leaves
CompilerConstructed ==
  /\ flags = [e \in Elements |-> {}]
  /\ globalType = [g \in GlobalNames |-> "void"]
  /\ constantIntegerValue = [g \in GlobalNames |-> 0]
  /\ moduleGlobals = [n \in ModuleGlobalNames |-> 0]
  /\ moduleGlobalMutable = [n \in ModuleGlobalNames |-> FALSE]
  /\ moduleGlobalInit = [n \in ModuleGlobalNames |-> 0]
  /\ moduleGlobalImports = [n \in GlobalNames |-> 0]
  /\ moduleFunctions = [n \in ModuleFunctionNames |-> 0]
  /\ moduleFunctionImports = [n \in FunctionNames |-> 0]
  /\ moduleFunctionBody = [n \in TrampolineNames |-> NoBody]
  /\ startFunctionBody = <<>>
  /\ startOrigins = <<>>
  /\ lowererCalls = {}
  /\ functionTable = <<>>
  /\ functionTableIndex = [fn \in FunctionNames \cup TrampolineNames |-> -1]
  /\ trampoline = [fn \in FunctionNames |-> FALSE]
  /\ argcVar = FALSE
  /\ argcSet = FALSE
  /\ moduleFunctionExports = {}
  /\ moduleStart = ""
  /\ diagnostics = [code \in DiagnosticCodes |-> 0]
  /\ lastOp = [op |-> "constructor", target |-> "", operands |-> <<>>, repeat |-> FALSE,
               changed |-> FALSE]
  /\ lastExpr = createUnreachable
  /\ tableReturns = [fn \in FunctionNames \cup TrampolineNames |-> {}]
  /\ compileCalls = 0

\* no statement of the current function compiled yet, no expression either
NoCompile ==
  [contextualType |-> "void", conversionKind |-> "NONE", wrapMode |-> "NONE",
   innerType |-> "void", conversions |-> 0, errors |-> <<>>, x |-> <<>>]

\* no call checked yet
NoCheck ==
  [caller |-> "", signature |-> Signature(FALSE, FALSE, 0, 0), numArguments |-> 0,
   hasThis |-> FALSE, result |-> TRUE, reported |-> 0, x |-> "", emitted |-> FALSE,
   count |-> 0]

\* nothing observed yet
\* no lowering routine called yet
NoLowering == [op |-> "none", input |-> <<>>, result |-> <<>>]

ObservedNothing ==
  /\ lastRun = NoRun
  /\ lastCheck = NoCheck
  /\ lastLowering = NoLowering

\* the sources and functions of the programs compiled step by step; "a" is the entry
\* source; every source has a top-level call after its imports
UnitSources == {"a", "b"}
UnitFunctions == {"p", "q"}
UnitNames == UnitSources \cup UnitFunctions
UnitOrder == <<"a", "b", "p", "q">>
EntrySource == "a"
TopLevelCall == [source \in UnitSources |-> IF source = "a" THEN "p" ELSE "q"]

\* the programs: any imports between the sources, any calls between the functions, any
\* functions decorated @inline
Units ==
  {u \in [imports : [UnitSources -> SUBSET UnitSources],
          calls : [UnitFunctions -> SUBSET UnitFunctions],
          inline : SUBSET UnitFunctions] : TRUE}

NoUnit ==
  [imports |-> [source \in UnitSources |-> {}], calls |-> [fn \in UnitFunctions |-> {}],
   inline |-> {}]

NoCall == [callee |-> "", inline |-> FALSE, onStack |-> FALSE, decision |-> ""]

\* before compile()
UnitStart ==
  /\ compileStarted = FALSE
  /\ callStack = <<>>
  /\ compiledFlag = {}
  /\ currentInlineFunctions = <<>>
  /\ loweredTimes = [n \in UnitNames |-> 0]
  /\ inlinedTimes = [n \in UnitFunctions |-> 0]
  /\ inlineWarnings = 0
  /\ lastCall = NoCall
  /\ lastInlineReturn = [before |-> <<>>, after |-> <<>>, count |-> 0]

TraceConstructed ==
  /\ ObservedNothing
  /\ unit = NoUnit
  /\ UnitStart

FlowConstructed ==
  /\ flow = [flags |-> {}, breakLabel |-> FALSE]
  /\ genericContext = FALSE
  /\ lastIf = [hasElse |-> FALSE, forked |-> FALSE, before |-> {}, ifTrueFlow |-> {},
               ifFalseFlow |-> {}]
  /\ currentType = "void"
  /\ lastCompile = NoCompile

AnalysisConstructed ==
  /\ FlowConstructed
  /\ TraceConstructed

\* the elements and the module after an operation returned state c
CommitModule(c) ==
  /\ flags' = c.flags
  /\ globalType' = c.globalType
  /\ constantIntegerValue' = c.constantIntegerValue
  /\ moduleGlobals' = c.moduleGlobals
  /\ moduleGlobalMutable' = c.moduleGlobalMutable
  /\ moduleGlobalInit' = c.moduleGlobalInit
  /\ moduleGlobalImports' = c.moduleGlobalImports
  /\ moduleFunctions' = c.moduleFunctions
  /\ moduleFunctionImports' = c.moduleFunctionImports
  /\ moduleFunctionBody' = c.moduleFunctionBody
  /\ startFunctionBody' = c.startFunctionBody
  /\ startOrigins' = c.startOrigins
  /\ lowererCalls' = c.lowererCalls
  /\ functionTable' = c.functionTable
  /\ functionTableIndex' = c.functionTableIndex
  /\ trampoline' = c.trampoline
  /\ argcVar' = c.argcVar
  /\ argcSet' = c.argcSet
  /\ moduleFunctionExports' = c.moduleFunctionExports
  /\ moduleStart' = c.moduleStart
  /\ diagnostics' = c.diagnostics
  /\ UNCHANGED <<noTreeShaking, mutableGlobal, mainFunction>>

\* the state after an operation returned state c
Commit(c) ==
  /\ memoryOffset' = c.memoryOffset
  /\ memorySegments' = c.memorySegments
  /\ segAlign' = c.segAlign
  /\ stringSegments' = c.stringSegments
  /\ offsetTrace' = memoryOffset
  /\ CommitModule(c)
  /\ UNCHANGED <<memoryBase, isWasm64, hasGC, sealed, initialPages, stringPtrs, stringCreated,
                 stringCalls>>

\* the record of a call of op on target that returned state c
Called(op, target, operands, c) ==
  lastOp' = [op |-> op, target |-> target, operands |-> operands,
             repeat |-> IF target \in Elements THEN "COMPILED" \in flags[target] ELSE FALSE,
             changed |-> c # Cur]

CompileGlobal ==
  /\ ~sealed
  /\ compileCalls < MaxCalls
  /\ \E g \in GlobalNames :
       \E r \in {Call(Cur, "compileGlobal", <<g>>)} :
          /\ Commit(r.c)
          /\ Called("compileGlobal", g, <<>>, r.c)
          /\ compileCalls' = compileCalls + 1
          /\ UNCHANGED <<lastExpr, tableReturns, analysisVars>>

CompileEnum ==
  /\ ~sealed
  /\ compileCalls < MaxCalls
  /\ \E e \in EnumNames :
       \E r \in {Call(Cur, "compileEnum", <<e>>)} :
          /\ Commit(r.c)
          /\ Called("compileEnum", e, <<>>, r.c)
          /\ compileCalls' = compileCalls + 1
          /\ UNCHANGED <<lastExpr, tableReturns, analysisVars>>

CompileFunction ==
  /\ ~sealed
  /\ compileCalls < MaxCalls
  /\ \E fn \in FunctionNames :
       \E r \in {Call(Cur, "compileFunction", <<fn>>)} :
          /\ Commit(r.c)
          /\ Called("compileFunction", fn, <<>>, r.c)
          /\ compileCalls' = compileCalls + 1
          /\ UNCHANGED <<lastExpr, tableReturns, analysisVars>>

CompileClass ==
  /\ ~sealed
  /\ compileCalls < MaxCalls
  /\ \E k \in ClassNames :
       \E r \in {Call(Cur, "compileClass", <<k>>)} :
          /\ Commit(r.c)
          /\ Called("compileClass", k, <<>>, r.c)
          /\ compileCalls' = compileCalls + 1
          /\ UNCHANGED <<lastExpr, tableReturns, analysisVars>>

CompileSource ==
  /\ ~sealed
  /\ compileCalls < MaxCalls
  /\ \E src \in SourceNames :
       \E c \in {Call(Cur, "compileSource", <<src>>)} :
          /\ Commit(c)
          /\ Called("compileSource", src, <<>>, c)
          /\ compileCalls' = compileCalls + 1
          /\ UNCHANGED <<lastExpr, tableReturns, analysisVars>>

\* an expression outside the enums names an enum value, by identifier or by property access
CompileEnumValueReference ==
  /\ ~sealed
  /\ compileCalls < MaxCalls
  /\ \E v \in EnumValueNames :
       \E e \in {EnumValueRef(v), PropertyAccess(v)} :
         \E r \in {Call(Cur, "compileExpression", <<e>>)} :
            /\ Commit(r.c)
            /\ Called(IF e.kind = "IDENTIFIER" THEN "compileIdentifierExpression"
                      ELSE "compilePropertyAccessExpression", v, <<>>, r.c)
            /\ lastExpr' = r.x
            /\ compileCalls' = compileCalls + 1
            /\ UNCHANGED <<tableReturns, analysisVars>>

\* a caller that holds a compiled function asks for its function table index
EnsureFunctionTableEntry ==
  \E fn \in FunctionNames \cup TrampolineNames :
    /\ "COMPILED" \in flags[fn]
    /\ Len(functionTable) < MaxTable
    /\ \E r \in {Call(Cur, "ensureFunctionTableEntry", <<fn>>)} :
          /\ Commit(r.c)
          /\ lastOp' = [op |-> "ensureFunctionTableEntry", target |-> fn,
                        operands |-> <<r.index>>, repeat |-> tableReturns[fn] # {},
                        changed |-> Len(r.c.functionTable) # Len(functionTable)]
          /\ tableReturns' = [tableReturns EXCEPT ![fn] = @ \cup {r.index}]
          /\ UNCHANGED <<lastExpr, compileCalls, analysisVars>>

\* the operands of a well-formed direct call of fn that supplies numArguments arguments
OperandList(fn, numArguments) ==
  (IF isInstance(fn) THEN <<createGetLocal(0)>> ELSE <<>>)
    \o [i \in 1..numArguments |-> createI32(ArgumentValues[i])]

\* the operand lists a well-formed direct call of fn can supply
OperandLists(fn) ==
  {OperandList(fn, numArguments) : numArguments \in minArguments(fn)..maxArguments(fn)}

\* a call site emits a direct call of fn
MakeCallDirect ==
  \E fn \in FunctionNames :
    \E numArguments \in minArguments(fn)..maxArguments(fn) :
      LET operands == OperandList(fn, numArguments)
      IN \E r \in {Call(Cur, "makeCallDirect", <<fn, operands>>)} :
            /\ Commit(r.c)
            /\ Called("makeCallDirect", fn, operands, r.c)
            /\ lastExpr' = r.x
            /\ UNCHANGED <<tableReturns, compileCalls, analysisVars>>

\* the last if statement as the claims read it
IfRecord(stmt, before, r) ==
  [hasElse |-> Len(stmt.body) = 2, forked |-> r.forked, before |-> before,
   ifTrueFlow |-> r.ifTrueFlow, ifFalseFlow |-> r.ifFalseFlow]

\* the body of the current function continues with an if statement
CompileIfStatement ==
  /\ compileCalls < MaxCalls
  /\ \E stmt \in IfStatements :
       \E r \in {compileIfStatement([c |-> Cur, flow |-> flow], stmt)} :
          /\ Commit(r.c)
          /\ Called("compileIfStatement", "", <<>>, r.c)
          /\ flow' = r.flow
          /\ lastIf' = IfRecord(stmt, flow.flags, r)
          /\ compileCalls' = compileCalls + 1
          /\ UNCHANGED <<lastExpr, tableReturns, genericContext, currentType, lastCompile, traceVars>>

\* the body of the current function continues with another statement
CompileStatement ==
  /\ compileCalls < MaxCalls
  /\ \E stmt \in SimpleStatements :
       \E r \in {compileStatement([c |-> Cur, flow |-> flow], stmt)} :
          /\ Commit(r.c)
          /\ Called("compileStatement", "", <<>>, r.c)
          /\ flow' = r.flow
          /\ compileCalls' = compileCalls + 1
          /\ UNCHANGED <<lastExpr, tableReturns, genericContext, lastIf, currentType,
                         lastCompile, traceVars>>

\* the last compileExpression call as the claims read it
CompileRecord(contextualType, conversionKind, wrapMode, r) ==
  [contextualType |-> contextualType, conversionKind |-> conversionKind,
   wrapMode |-> wrapMode, innerType |-> r.innerType, conversions |-> r.conversions,
   errors |-> r.errors, x |-> r.x]

\* an expression is compiled to a contextual type
CompileExpression ==
  \E e \in TypedExpressions, contextualType \in Types, conversionKind \in ConversionKinds,
     wrapMode \in WrapModes :
    \E r \in {compileTypedExpression(e, contextualType, conversionKind, wrapMode)} :
       /\ currentType' = r.currentType
       /\ lastCompile' = CompileRecord(contextualType, conversionKind, wrapMode, r)
       /\ UNCHANGED <<memVars, compilerVars, flow, genericContext, lastIf, traceVars>>

\* an expression is compiled retaining its type
CompileExpressionRetainType ==
  \E e \in TypedExpressions, contextualType \in Types, wrapMode \in WrapModes :
    \E r \in {compileExpressionRetainType(e, contextualType, wrapMode)} :
       /\ currentType' = r.currentType
       /\ lastCompile' =
            CompileRecord(IF contextualType = "void" THEN "i32" ELSE contextualType,
                          "NONE", wrapMode, r)
       /\ UNCHANGED <<memVars, compilerVars, flow, genericContext, lastIf, traceVars>>

\* the record of a lowering routine called on its own
Lowering(op, input, result) == [op |-> op, input |-> input, result |-> result]

\* operands that report nothing on their own under any contextual type: 1, 1.0, true, null
Operands == {Lit(1), FloatLit, TrueE, NullE}

BinaryExpressions == {BinaryE(operator, l, r) : operator \in {"<", "<<"}, l \in Operands, r \in Operands}

\* f(), f(5), f(5, 7), f(5, 7, 1) and the same for the method m and for h
CallExpressions ==
  {CallE(fn, args) : fn \in {"f", "m", "h"},
                     args \in {<<>>, <<Lit(5)>>, <<Lit(5), Lit(7)>>, <<Lit(5), Lit(7), Lit(1)>>}}

\* compileExpression reaches a binary expression: currentType is the contextual type when
\* compileBinaryExpression is entered
CompileBinaryExpression ==
  \E e \in BinaryExpressions, contextualType \in Types :
    \E r \in {compileBinaryExpression(e, contextualType)} :
       /\ currentType' = r.currentType
       /\ lastLowering' = Lowering("compileBinaryExpression",
                                   [expression |-> e, contextualType |-> contextualType], r)
       /\ UNCHANGED <<memVars, compilerVars, flow, genericContext, lastIf, lastCompile,
                      lastRun, lastCheck, cycleVars>>

\* compileExpression reaches a call expression
CompileCallExpression ==
  \E e \in CallExpressions, contextualType \in Types :
    \E r \in {compileCallExpression(e, contextualType)} :
       /\ currentType' = r.currentType
       /\ lastLowering' = Lowering("compileCallExpression",
                                   [expression |-> e, contextualType |-> contextualType], r)
       /\ UNCHANGED <<memVars, compilerVars, flow, genericContext, lastIf, lastCompile,
                      lastRun, lastCheck, cycleVars>>

\* the bodies of the loops and what the cases of a switch hold: with and without a break or
\* a continue on some path
LoopBodies ==
  {ReturnStmt, BreakStmt, ContinueStmt, LabelledBreakStmt, LabelledContinueStmt,
   ExpressionStmt(Lit(1)),
   IfStmt(GlobalRef("G1"), ReturnStmt), IfElseStmt(GlobalRef("G1"), ReturnStmt, ThrowStmt),
   IfStmt(GlobalRef("G1"), ContinueStmt),
   BlockStmt(<<IfStmt(GlobalRef("G1"), BreakStmt), ReturnStmt>>),
   BlockStmt(<<IfStmt(GlobalRef("G1"), ContinueStmt), ReturnStmt>>),
   BlockStmt(<<ExpressionStmt(Lit(1)), ContinueStmt>>),
   BlockStmt(<<ReturnStmt>>),
   WhileStmt(GlobalRef("G1"), BreakStmt),
   WhileStmt(GlobalRef("G1"), BlockStmt(<<LabelledBreakStmt, ReturnStmt>>)),
   DoStmt(ContinueStmt, GlobalRef("G1"))}

\* do statement while (condition)
DoStatements == {DoStmt(statement, condition) : statement \in LoopBodies, condition \in Conditions}

\* while (condition) statement
WhileStatements ==
  {WhileStmt(condition, statement) : condition \in Conditions, statement \in LoopBodies}

\* for (;condition;) statement, for (;;) statement, and for (1; G1; 1) statement
ForStatements ==
  {ForStmt(NoExpr, condition, NoExpr, statement) :
     condition \in Conditions \cup {NoExpr}, statement \in LoopBodies}
    \cup {ForStmt(Lit(1), GlobalRef("G1"), Lit(1), statement) : statement \in LoopBodies}

\* the cases of the switch statements
SwitchCases ==
  {SwitchCase(Lit(1), <<BreakStmt>>), SwitchCase(Lit(1), <<ReturnStmt>>),
   SwitchCase(Lit(1), <<ExpressionStmt(Lit(1))>>),
   SwitchCase(Lit(1), <<IfStmt(GlobalRef("G1"), BreakStmt), ReturnStmt>>),
   SwitchCase(NoExpr, <<ReturnStmt>>), SwitchCase(NoExpr, <<BreakStmt>>),
   SwitchCase(NoExpr, <<IfStmt(GlobalRef("G1"), BreakStmt), ReturnStmt>>),
   SwitchCase(NoExpr, <<ContinueStmt>>)}

\* a case list has at most one default
SwitchStatements ==
  {SwitchStmt(GlobalRef("G1"), cases) :
     cases \in {<<>>} \cup {<<only>> : only \in SwitchCases}
                 \cup {cases \in SwitchCases \X SwitchCases :
                         cases[1].expression # NoExpr \/ cases[2].expression # NoExpr}}

\* the branches of the ternary expressions: 1, 1.0, null, and a ternary
TernaryBranches ==
  {Lit(1), FloatLit, NullE, Ternary(GlobalRef("G1"), Lit(1), Lit(1))}

TernaryExpressions ==
  {Ternary(condition, ifThen, ifElse) :
     condition \in Conditions, ifThen \in TernaryBranches, ifElse \in TernaryBranches}

\* assignment targets: the globals, the fields of P, elements of the arrays
AssignmentTargets ==
  {GlobalRef(g) : g \in {"G1", "G2", "G3", "G6", "G7"}}
    \cup {ThisField(name) : name \in {"x", "r", "ri", "y"}}
    \cup {ElementAccess(class, Lit(1)) : class \in {"A", "R"}}
    \cup {ElementAccess("A", GlobalRef("G1")), Lit(1)}

\* the expressions that use temporary locals, and the ternaries
FunctionExpressions ==
  TernaryExpressions
    \cup {Assignment(target, valueExpression) :
            target \in AssignmentTargets,
            valueExpression \in {Lit(1), GlobalRef("G1"), PostfixE(GlobalRef("G1"))}}
    \cup {PostfixE(target) : target \in AssignmentTargets}
    \cup {ArrayLiteral(elements) :
            elements \in {<<>>, <<Lit(1)>>, <<GlobalRef("G1")>>, <<Lit(1), GlobalRef("G1")>>,
                          <<PostfixE(GlobalRef("G1"))>>, <<NewE("P")>>}}
    \cup {ObjectLiteral(fields) :
            fields \in {<<>>, <<Field("x", Lit(1))>>, <<Field("x", GlobalRef("G1"))>>,
                        <<Field("x", Lit(1)), Field("y", PostfixE(GlobalRef("G1")))>>,
                        <<Field("z", Lit(1))>>, <<Field("z", Lit(1)), Field("x", Lit(1))>>}}
    \cup {NewE(class) : class \in {"P", "K"}}

\* the statements compiled as the body of a function
FunctionStatements ==
  DoStatements \cup WhileStatements \cup ForStatements \cup SwitchStatements
    \cup IfStatements \cup SimpleStatements
    \cup {WhileStmt(GlobalRef("G1"), statement) : statement \in SwitchStatements}
    \cup {ExpressionStmt(e) : e \in FunctionExpressions}

\* the flags of the function compiled: a method or a constructor of class P
FunctionFlagSets == {{"INSTANCE"}, {"INSTANCE", "CONSTRUCTOR"}}

\* the values a 32-bit slot is tried with: around the limits of the short integer types
SlotValues ==
  {-32769, -32768, -129, -128, -1, 0, 1, 2, 127, 128, 255, 256, 32767, 32768, 65535, 65536}

\* the values a 64-bit slot is tried with
LongValues == {I64(0, 5), I64(1, -1), I64(-1, 300), I64(7, 65536), I64(-1, -129)}

\* the values a slot of a type can hold: anything, the upper bits of a short integer in a
\* 32-bit slot being garbage
slotValues(type) == IF type \in {"i64", "u64"} THEN LongValues ELSE SlotValues

\* the expressions of a type: a local of that type, or a constant in the range of the type
expressionsOf(type) ==
  {createGetLocalNode(0)}
    \cup (IF type \in ShortIntegerTypes
          THEN {createConst(v) : v \in SlotValues \cap valueRange(type)}
          ELSE IF type \in {"i32", "u32"} THEN {createConst(v) : v \in SlotValues}
          ELSE {})

\* an expression of an integer type is converted to an integer type, and the converted
\* expression is evaluated
ConvertExpression ==
  /\ lastLowering = NoLowering
  /\ \E fromType \in IntegerTypes, toType \in IntegerTypes, wrapMode \in WrapModes,
        signExtension \in BOOLEAN :
       \E x \in expressionsOf(fromType), local \in slotValues(fromType) :
       \E r \in {convertInteger(x, fromType, toType, wrapMode, signExtension)} :
          /\ lastLowering' =
               Lowering("convertExpression",
                        [x |-> x, fromType |-> fromType, toType |-> toType,
                         wrapMode |-> wrapMode, local |-> local],
                        [x |-> r.x, value |-> valueOf(r.x, local)])
          /\ currentType' = r.currentType
          /\ UNCHANGED <<memVars, compilerVars, flow,
                         genericContext, lastIf, lastCompile, lastRun, lastCheck, cycleVars>>

\* what is recorded of the lowering of the body of a function
FunctionLowering(op, input, functionFlags, r) ==
  Lowering(op, [input EXCEPT !.f = FunctionOnly(FunctionConstructed(Cur, functionFlags))],
           [r EXCEPT !.f = FunctionOnly(r.f)])

\* compileFunction compiles the body of a function it has just entered: one statement
CompileFunctionStatement ==
  /\ lastLowering = NoLowering
  /\ \E stmt \in FunctionStatements, functionFlags \in FunctionFlagSets :
       \E r \in {compileStatementF(FunctionConstructed(Cur, functionFlags), stmt)} :
          /\ Commit(r.f.c)
          /\ lastLowering' = FunctionLowering("compileStatement", [statement |-> stmt, f |-> <<>>],
                                              functionFlags, r)
          /\ UNCHANGED <<lastOp, lastExpr, tableReturns, compileCalls, flow, genericContext,
                         lastIf, currentType, lastCompile, lastRun, lastCheck, cycleVars>>

\* compileFunction compiles the body of a function it has just entered: one expression
CompileFunctionExpression ==
  /\ lastLowering = NoLowering
  /\ \E e \in FunctionExpressions, functionFlags \in FunctionFlagSets :
       \E contextualType \in IF e.target = "object" THEN ClassTypes ELSE {"void", "i32"} :
       \E r \in {compileExpressionF(FunctionConstructed(Cur, functionFlags), e, contextualType)} :
          /\ Commit(r.f.c)
          /\ lastLowering' = FunctionLowering("compileExpression",
                                              [expression |-> e, contextualType |-> contextualType,
                                               f |-> <<>>], functionFlags, r)
          /\ currentType' = r.type
          /\ UNCHANGED <<lastOp, lastExpr, tableReturns, compileCalls, flow, genericContext,
                         lastIf, lastCompile, lastRun, lastCheck, cycleVars>>

\* an expression names a function: the function is compiled and entered in the table
CompileFunctionIdentifier ==
  \E fn \in FunctionNames :
    /\ Len(functionTable) < MaxTable
    /\ \E r \in {compileFunctionIdentifier(Cur, fn)} :
         /\ Commit(r.c)
         /\ Called("compileIdentifierExpression", fn, <<>>, r.c)
         /\ lastExpr' = r.x
         /\ tableReturns' = [tableReturns EXCEPT
                               ![fn] = IF r.x.id = "Const" THEN @ \cup {r.x.value} ELSE @]
         /\ UNCHANGED <<compileCalls, analysisVars>>

\* a call reaches the trampoline of a function with some value in ~argc
RunTrampoline ==
  \E original \in FunctionNames, argc \in 0..MaxArgc :
    /\ trampoline[original]
    /\ \E r \in {Exec(moduleFunctionBody[TrampolineName(original)], argc, <<>>)} :
         lastRun' = [original |-> original, argc |-> argc, trace |-> r.trace,
                     outcome |-> r.outcome]
    /\ UNCHANGED <<memVars, compilerVars, flow, genericContext, lastIf, currentType,
                   lastCompile, lastCheck, lastLowering, cycleVars>>

\* the names of a set in the order of the program text
InOrder(names) == SelectSeq(UnitOrder, LAMBDA n : n \in names)

ImportStmt(target) == [kind |-> "import", target |-> target]
CallStmt(target) == [kind |-> "call", target |-> target]

\* source.statements: the imports, then the top-level call
sourceStatements(source) ==
  LET imports == InOrder(unit.imports[source])
  IN [i \in 1..Len(imports) |-> ImportStmt(imports[i])] \o <<CallStmt(TopLevelCall[source])>>

\* declaration.body: the calls the function makes
bodyStatements(fn) ==
  LET callees == InOrder(unit.calls[fn])
  IN [i \in 1..Len(callees) |-> CallStmt(callees[i])]

Frame(op, target, pc, saved) == [op |-> op, target |-> target, pc |-> pc, saved |-> saved]
Top == callStack[Len(callStack)]
Returned == SubSeq(callStack, 1, Len(callStack) - 1)
\* the call in progress moves on to statement pc
TopAt(pc) == [callStack EXCEPT ![Len(callStack)].pc = pc]

\* bug variant: COMPILED is not set before descending
setCompiled_late(compiled, target) == compiled

\* source.set(CommonFlags.COMPILED) / instance.set(CommonFlags.COMPILED)
setCompiled(compiled, target) == compiled \cup {target}

\* bug variant: a function on the inline stack is not recognized
includes_never(inlineFunctions, instance) == FALSE

\* this.currentInlineFunctions.includes(instance)
includes(inlineFunctions, instance) == instance \in Range(inlineFunctions)

\* compile(): the entry source is compiled
StartCompile ==
  /\ ~compileStarted
  /\ compileStarted' = TRUE
  /\ callStack' = <<Frame("compileSource", EntrySource, 0, <<>>)>>
  /\ UNCHANGED <<memVars, compilerVars, flow, genericContext, lastIf, currentType,
                 lastCompile, observedVars, unit, compiledFlag, currentInlineFunctions,
                 loweredTimes, inlinedTimes, inlineWarnings, lastCall, lastInlineReturn>>

\* compileSource / compileFunction is entered: it returns if COMPILED is set, and sets it
\* and goes on to the statements otherwise
EnterCompile(op) ==
  /\ callStack # <<>>
  /\ Top.op = op
  /\ Top.pc = 0
  /\ IF Top.target \in compiledFlag
     THEN /\ callStack' = Returned
          /\ UNCHANGED <<compiledFlag, loweredTimes>>
     ELSE /\ compiledFlag' = setCompiled(compiledFlag, Top.target)
          /\ loweredTimes' = [loweredTimes EXCEPT ![Top.target] = @ + 1]
          /\ callStack' = TopAt(1)
  /\ UNCHANGED <<memVars, compilerVars, flow, genericContext, lastIf, currentType,
                 lastCompile, observedVars, unit, compileStarted, currentInlineFunctions, inlinedTimes,
                 inlineWarnings, lastCall, lastInlineReturn>>

EnterCompileSource == EnterCompile("compileSource")

EnterCompileFunction == EnterCompile("compileFunction")

\* compileCallDirect(callee): inlined if decorated and not on currentInlineFunctions,
\* with a warning if it is; else makeCallDirect, which compiles the callee
CompileCallDirectStep(callee) ==
  LET inline == callee \in unit.inline
      onStack == includes(currentInlineFunctions, callee)
  IN /\ Len(callStack) < MaxDepth
     /\ IF inline /\ ~onStack
        THEN /\ currentInlineFunctions' = Append(currentInlineFunctions, callee)
             /\ inlinedTimes' = [inlinedTimes EXCEPT ![callee] = @ + 1]
             /\ callStack' = Append(TopAt(Top.pc + 1),
                                    Frame("compileCallInlineUnchecked", callee, 1,
                                          currentInlineFunctions))
             /\ lastCall' = [callee |-> callee, inline |-> inline, onStack |-> onStack,
                             decision |-> "inlined"]
             /\ UNCHANGED inlineWarnings
        ELSE /\ inlineWarnings' = IF inline THEN inlineWarnings + 1 ELSE inlineWarnings
             /\ callStack' = Append(TopAt(Top.pc + 1), Frame("compileFunction", callee, 0, <<>>))
             /\ lastCall' = [callee |-> callee, inline |-> inline, onStack |-> onStack,
                             decision |-> "call"]
             /\ UNCHANGED <<currentInlineFunctions, inlinedTimes>>

\* compileSource: the next top-level statement, or the return after the last
LowerSourceStatement ==
  /\ callStack # <<>>
  /\ Top.op = "compileSource"
  /\ Top.pc >= 1
  /\ LET statements == sourceStatements(Top.target)
     IN IF Top.pc > Len(statements)
        THEN /\ callStack' = Returned
             /\ UNCHANGED <<currentInlineFunctions, inlinedTimes, inlineWarnings, lastCall>>
        ELSE IF statements[Top.pc].kind = "import"
        THEN /\ Len(callStack) < MaxDepth
             /\ callStack' = Append(TopAt(Top.pc + 1),
                                    Frame("compileSource", statements[Top.pc].target, 0, <<>>))
             /\ UNCHANGED <<currentInlineFunctions, inlinedTimes, inlineWarnings, lastCall>>
        ELSE CompileCallDirectStep(statements[Top.pc].target)
  /\ UNCHANGED <<memVars, compilerVars, flow, genericContext, lastIf, currentType,
                 lastCompile, observedVars, unit, compileStarted, compiledFlag, loweredTimes,
                 lastInlineReturn>>

\* compileFunction / compileCallInlineUnchecked: the next statement of the body, or the
\* return after the last; compileCallDirect pops the inlined function on return
LowerBodyStatement ==
  /\ callStack # <<>>
  /\ Top.op \in {"compileFunction", "compileCallInlineUnchecked"}
  /\ Top.pc >= 1
  /\ LET statements == bodyStatements(Top.target)
     IN IF Top.pc > Len(statements)
        THEN /\ callStack' = Returned
             /\ IF Top.op = "compileCallInlineUnchecked"
                THEN /\ currentInlineFunctions'
                          = SubSeq(currentInlineFunctions, 1, Len(currentInlineFunctions) - 1)
                     /\ lastInlineReturn' = [before |-> Top.saved,
                                             after |-> currentInlineFunctions',
                                             count |-> 1]
                ELSE UNCHANGED <<currentInlineFunctions, lastInlineReturn>>
             /\ UNCHANGED <<inlinedTimes, inlineWarnings, lastCall>>
        ELSE /\ CompileCallDirectStep(statements[Top.pc].target)
             /\ UNCHANGED lastInlineReturn
  /\ UNCHANGED <<memVars, compilerVars, flow, genericContext, lastIf, currentType,
                 lastCompile, observedVars, unit, compileStarted, compiledFlag, loweredTimes>>

\* compile(): after the traversal the start function is assembled and the static memory
\* set up
FinishCompile ==
  /\ ~sealed
  /\ CommitModule(assembleStart(Cur))
  /\ SetUpMemory
  /\ UNCHANGED <<lastOp, lastExpr, tableReturns, compileCalls, analysisVars>>

\* the functions that are called, exported and entered in the function table
ArgcFunctions == {"f", "g", "m", "h"}

\* a call site emits a direct call
ArgcMakeCallDirect ==
  /\ compileCalls < MaxCalls
  /\ \E fn \in ArgcFunctions :
       \E operands \in OperandLists(fn) :
         \E r \in {Call(Cur, "makeCallDirect", <<fn, operands>>)} :
            /\ Commit(r.c)
            /\ lastExpr' = r.x
            /\ compileCalls' = compileCalls + 1
            /\ UNCHANGED <<lastOp, tableReturns, analysisVars>>

\* a call site emits an indirect call
ArgcMakeCallIndirect ==
  /\ compileCalls < MaxCalls
  /\ \E fn \in ArgcFunctions :
       \E operands \in OperandLists(fn) :
         \E r \in {makeCallIndirect(Cur, signatureOf(fn), operands)} :
            /\ Commit(r.c)
            /\ lastExpr' = r.x
            /\ compileCalls' = compileCalls + 1
            /\ UNCHANGED <<lastOp, tableReturns, analysisVars>>

\* a function is exported from the module
ArgcMakeModuleExport ==
  /\ compileCalls < MaxCalls
  /\ \E fn \in ArgcFunctions :
       \E c \in {makeModuleExport(Cur, fn)} :
          /\ Commit(c)
          /\ compileCalls' = compileCalls + 1
          /\ UNCHANGED <<lastOp, lastExpr, tableReturns, analysisVars>>

\* a compiled function is entered in the function table
ArgcEnsureFunctionTableEntry ==
  /\ compileCalls < MaxCalls
  /\ \E fn \in ArgcFunctions :
       /\ "COMPILED" \in flags[fn]
       /\ \E r \in {Call(Cur, "ensureFunctionTableEntry", <<fn>>)} :
            /\ Commit(r.c)
            /\ tableReturns' = [tableReturns EXCEPT ![fn] = @ \cup {r.index}]
            /\ compileCalls' = compileCalls + 1
            /\ UNCHANGED <<lastOp, lastExpr, analysisVars>>

\* the signatures a call can be checked against
Signatures ==
  {sig \in [thisType : BOOLEAN, hasRest : BOOLEAN,
            requiredParameters : 0..(MaxArgc - 1), parameterTypes : 0..(MaxArgc - 1)] :
     sig.requiredParameters <= sig.parameterTypes}

\* the number of diagnostics reported so far
DiagnosticsIn(d) == SumOver(DiagnosticCodes, d)

\* the record of a check: what the caller was given, whether the check passed (result),
\* how many diagnostics the call reported, the expression the caller returned (x) and
\* whether the call left anything but diagnostics in the module (emitted)
CheckRecord(caller, signature, numArguments, hasThis, r) ==
  [caller |-> caller, signature |-> signature, numArguments |-> numArguments,
   hasThis |-> hasThis,
   result |-> checkCallSignature(signature, numArguments, hasThis) = <<>>,
   reported |-> DiagnosticsIn(r.c.diagnostics) - DiagnosticsIn(diagnostics),
   x |-> r.x.id,
   emitted |-> [r.c EXCEPT !.diagnostics = diagnostics] # Cur,
   count |-> lastCheck.count + 1]

\* the argument expressions of a call with n arguments
ArgumentExpressions(n) == [i \in 1..n |-> Lit(ArgumentValues[1])]

\* a call is checked against a signature
CheckCallSignature ==
  /\ lastCheck.count < MaxChecks
  /\ \E signature \in Signatures, numArguments \in 0..MaxArgc, hasThis \in BOOLEAN :
       /\ \E reported \in {checkCallSignature(signature, numArguments, hasThis)} :
            \E r \in {[c |-> errorEach(Cur, reported, 1),
                       x |-> [id |-> IF reported = <<>> THEN "true" ELSE "false"]]} :
               /\ Commit(r.c)
               /\ lastCheck' = CheckRecord("checkCallSignature", signature, numArguments,
                                           hasThis, r)
       /\ UNCHANGED <<lastOp, lastExpr, tableReturns, compileCalls, flow, genericContext,
                      lastIf, currentType, lastCompile, lastRun, lastLowering, cycleVars>>

\* a call expression names a function and is compiled as a direct call
CompileCallDirect ==
  /\ lastCheck.count < MaxChecks
  /\ \E fn \in FunctionNames, numArguments \in 0..MaxArgc, hasThis \in BOOLEAN :
       /\ \E r \in {compileCallDirect(Cur, fn, ArgumentExpressions(numArguments), hasThis)} :
            /\ Commit(r.c)
            /\ Called("compileCallDirect", fn, <<>>, r.c)
            /\ lastExpr' = r.x
            /\ lastCheck' = CheckRecord("compileCallDirect", signatureOf(fn), numArguments,
                                        hasThis, r)
       /\ UNCHANGED <<tableReturns, compileCalls, flow, genericContext, lastIf, currentType,
                      lastCompile, lastRun, lastLowering, cycleVars>>

\* a call expression calls a value of a function type
CompileCallIndirect ==
  /\ lastCheck.count < MaxChecks
  /\ \E signature \in Signatures, numArguments \in 0..MaxArgc, hasThis \in BOOLEAN :
       /\ \E r \in {compileCallIndirect(Cur, signature, ArgumentExpressions(numArguments),
                                         hasThis)} :
            /\ Commit(r.c)
            /\ lastExpr' = r.x
            /\ lastCheck' = CheckRecord("compileCallIndirect", signature, numArguments,
                                        hasThis, r)
       /\ UNCHANGED <<lastOp, tableReturns, compileCalls, flow, genericContext, lastIf,
                      currentType, lastCompile, lastRun, lastLowering, cycleVars>>

\* a property access names a getter, which is called without arguments
CompileGetter ==
  /\ lastCheck.count < MaxChecks
  /\ \E fn \in FunctionNames :
       /\ \E r \in {compileGetter(Cur, fn)} :
            /\ Commit(r.c)
            /\ Called("compileGetter", fn, <<>>, r.c)
            /\ lastExpr' = r.x
            /\ lastCheck' = CheckRecord("compileGetter", signatureOf(fn), 0, isInstance(fn), r)
       /\ UNCHANGED <<tableReturns, compileCalls, flow, genericContext, lastIf, currentType,
                      lastCompile, lastRun, lastLowering, cycleVars>>

vars == <<memVars, compilerVars, analysisVars>>

\* the options the memory operations do not read
OtherOptionsDefault == noTreeShaking = FALSE /\ mutableGlobal = FALSE /\ mainFunction = TRUE

\* static memory: segments, strings and arrays under every memory option
MemInit ==
  /\ memoryBase \in MemoryBases
  /\ isWasm64 \in BOOLEAN
  /\ hasGC \in BOOLEAN
  /\ MemoryConstructed
  /\ OtherOptionsDefault
  /\ CompilerConstructed
  /\ AnalysisConstructed

MemNext == AddMemorySegment \/ EnsureStaticString \/ EnsureStaticArray \/ SealMemory

SpecMem == MemInit /\ [][MemNext]_vars

\* element compilation: any element, in any order, any number of times
DeclInit ==
  /\ memoryBase = 0
  /\ isWasm64 = FALSE
  /\ hasGC = FALSE
  /\ MemoryConstructed
  /\ noTreeShaking \in BOOLEAN
  /\ mutableGlobal = FALSE
  /\ mainFunction = TRUE
  /\ CompilerConstructed
  /\ AnalysisConstructed

DeclNext == CompileGlobal \/ CompileEnum \/ CompileFunction \/ CompileClass \/ CompileSource

SpecDecl == DeclInit /\ [][DeclNext]_vars

\* enums: enums are compiled and their values are named, in any order
EnumNext == CompileEnum \/ CompileEnumValueReference

SpecEnum == DeclInit /\ [][EnumNext]_vars

\* the state in which the function operations start
FuncInit ==
  /\ memoryBase = 0
  /\ isWasm64 = FALSE
  /\ hasGC = FALSE
  /\ MemoryConstructed
  /\ OtherOptionsDefault
  /\ CompilerConstructed
  /\ AnalysisConstructed

\* the function table: functions are compiled and their table entries requested
TableNext == CompileFunction \/ EnsureFunctionTableEntry

SpecTable == FuncInit /\ [][TableNext]_vars

\* direct calls: functions are compiled and called with every well-formed operand list
CallNext == CompileFunction \/ MakeCallDirect

SpecCall == FuncInit /\ [][CallNext]_vars

\* statements: the body of a function, generic or not, inside a loop or not
FlowInit ==
  /\ memoryBase = 0
  /\ isWasm64 = FALSE
  /\ hasGC = FALSE
  /\ MemoryConstructed
  /\ noTreeShaking \in BOOLEAN
  /\ mutableGlobal = FALSE
  /\ mainFunction = TRUE
  /\ CompilerConstructed
  /\ genericContext \in BOOLEAN
  /\ \E breakLabel \in BOOLEAN : flow = [flags |-> {}, breakLabel |-> breakLabel]
  /\ lastIf = [hasElse |-> FALSE, forked |-> FALSE, before |-> {}, ifTrueFlow |-> {},
               ifFalseFlow |-> {}]
  /\ currentType = "void"
  /\ lastCompile = NoCompile
  /\ TraceConstructed

FlowNext == CompileIfStatement \/ CompileStatement

SpecFlow == FlowInit /\ [][FlowNext]_vars

\* expressions: any expression to any contextual type, on both targets
ExprInit ==
  /\ memoryBase = 0
  /\ isWasm64 \in BOOLEAN
  /\ hasGC = FALSE
  /\ MemoryConstructed
  /\ OtherOptionsDefault
  /\ CompilerConstructed
  /\ AnalysisConstructed

ExprNext == CompileExpression \/ CompileExpressionRetainType

SpecExpr == ExprInit /\ [][ExprNext]_vars

\* type errors: binary expressions and calls, well typed and not, under any contextual type
TypeErrorNext == CompileBinaryExpression \/ CompileCallExpression

SpecTypeError == ExprInit /\ [][TypeErrorNext]_vars

\* the statements and expressions of a function body, with and without tree shaking, in
\* a generic context or not
FunctionNext == CompileFunctionStatement \/ CompileFunctionExpression

SpecFunction == FlowInit /\ [][FunctionNext]_vars

\* conversions between integer types: every pair of types, constants and locals, with
\* and without wrapping
ConvertNext == ConvertExpression

SpecConvert == ExprInit /\ [][ConvertNext]_vars

\* trampolines: functions are named by expressions, which compiles them and enters them
\* in the function table, creating the trampolines of those with optional parameters, and
\* the trampolines are executed
TrampNext == CompileFunctionIdentifier \/ RunTrampoline

SpecTramp == FuncInit /\ [][TrampNext]_vars

\* call checking: calls with any number of arguments, with and without `this`, are
\* checked against signatures, directly and by the three callers of the check
SigNext == CheckCallSignature \/ CompileCallDirect \/ CompileCallIndirect \/ CompileGetter

SpecSig == FuncInit /\ [][SigNext]_vars

\* the ~argc helpers: calls, exports and table entries in any order
ArgcNext ==
  \/ ArgcMakeCallDirect
  \/ ArgcMakeCallIndirect
  \/ ArgcMakeModuleExport
  \/ ArgcEnsureFunctionTableEntry

SpecArgc == FuncInit /\ [][ArgcNext]_vars

\* the end of compile(): sources and functions are compiled, with and without a user
\* main, then the start function is assembled
StartInit ==
  /\ memoryBase = 0
  /\ isWasm64 = FALSE
  /\ hasGC = FALSE
  /\ MemoryConstructed
  /\ noTreeShaking \in BOOLEAN
  /\ mutableGlobal = FALSE
  /\ mainFunction \in BOOLEAN
  /\ CompilerConstructed
  /\ AnalysisConstructed

StartNext == CompileSource \/ CompileFunction \/ FinishCompile

SpecStart == StartInit /\ [][StartNext]_vars

\* the compilation of a program, one call or statement at a time
CycleInit ==
  /\ memoryBase = 0
  /\ isWasm64 = FALSE
  /\ hasGC = FALSE
  /\ MemoryConstructed
  /\ OtherOptionsDefault
  /\ CompilerConstructed
  /\ FlowConstructed
  /\ ObservedNothing
  /\ unit \in Units
  /\ UnitStart

CycleNext ==
  \/ StartCompile
  \/ EnterCompileSource
  \/ EnterCompileFunction
  \/ LowerSourceStatement
  \/ LowerBodyStatement

\* compile() runs to its end unless it cannot
SpecCycle == CycleInit /\ [][CycleNext]_vars /\ WF_vars(CycleNext)

(***************************************************************************)
(* Claims about the static memory layout (checked under SpecMem).          *)
(***************************************************************************)

\* C2: memoryOffset never decreases: after every addMemorySegment (directly or through
\* ensureStaticString / ensureStaticArray, with any alignment and buffer length) and after
\* the final pointer-size alignment it is at least what it was before the operation, and
\* it never drops below the constructor's max(memoryBase, 8).
MemoryMonotone ==
  /\ offsetTrace >= Max(memoryBase, 8)
  /\ memoryOffset >= offsetTrace

\* C2 witness: segments were added, one of them empty, the offset grew, memory is sealed
MemoryMonotoneWitness ==
  /\ sealed
  /\ Len(memorySegments) >= 2
  /\ \E k \in 1..Len(memorySegments) : memorySegments[k].length = 0
  /\ memoryOffset > offsetTrace
  /\ offsetTrace > Max(memoryBase, 8)

\* the end of the segment before segment k (the start of static memory for the first)
PreviousEnd(k) ==
  IF k = 1 THEN Max(memoryBase, 8)
  ELSE memorySegments[k - 1].offset + memorySegments[k - 1].length

SegmentsPlaced ==
  \A k \in 1..Len(memorySegments) :
    /\ memorySegments[k].offset = i64_align(PreviousEnd(k), segAlign[k])
    /\ memorySegments[k].offset % segAlign[k] = 0
    /\ memorySegments[k].offset >= Max(memoryBase, 8)
    /\ \A j \in 1..(k - 1) :
         memorySegments[j].offset + memorySegments[j].length <= memorySegments[k].offset

SegmentsKept ==
  \A k \in 1..Len(memorySegments) :
    /\ k <= Len(memorySegments')
    /\ memorySegments'[k] = memorySegments[k]

\* C3: every segment starts at the end of its predecessor (the start of static memory for
\* the first) rounded up to the alignment requested for it, hence at a multiple of that
\* alignment and at or above max(memoryBase, 8); no two segments overlap; and no operation
\* changes a segment that was already placed.
SegmentPlacement == []SegmentsPlaced /\ [][SegmentsKept]_vars

\* C3 witness: three segments, the last one moved up by its alignment past a non-empty one
SegmentPlacementWitness ==
  /\ Len(memorySegments) = 3
  /\ memorySegments[2].length > 0
  /\ memorySegments[3].offset > memorySegments[2].offset + memorySegments[2].length

\* C4: every call of ensureStaticString with the same content returned the same pointer,
\* at most one segment was created for that content, and different contents got
\* different pointers.
StringCanonical ==
  \A s \in Strings :
    /\ Cardinality(stringPtrs[s]) <= 1
    /\ stringCreated[s] <= 1
    /\ \A t \in Strings \ {s} : stringPtrs[s] \cap stringPtrs[t] = {}

\* C4 witness: a string ensured twice, with another segment and another string in between
StringCanonicalWitness ==
  \E s \in Strings, t \in Strings :
    /\ s # t
    /\ stringCalls[s] = 2
    /\ stringCreated[s] = 1
    /\ stringCalls[t] >= 1
    /\ Len(s) = Len(t)
    /\ Len(memorySegments) = 3
    /\ stringSegments[s] = 1

(***************************************************************************)
(* Claims about compiling program elements (checked under SpecDecl).       *)
(***************************************************************************)
CompileOps == {"compileGlobal", "compileEnum", "compileFunction", "compileClass", "compileSource"}

\* the state compileX(element) leaves when called now
AfterCompile(op, element) ==
  IF op = "compileSource" THEN Call(Cur, op, <<element>>) ELSE Call(Cur, op, <<element>>).c

\* C1: compileGlobal, compileEnum, compileFunction, compileClass and compileSource are
\* idempotent: a call on an element that is already flagged COMPILED leaves the compiler
\* state (module, start body, memory segments, function table, flags, diagnostics)
\* identical, and no global, function or import is ever added to the module twice.
CompileIdempotent ==
  /\ (lastOp.op \in CompileOps /\ lastOp.repeat) => ~lastOp.changed
  /\ \A g \in GlobalNames :
       "COMPILED" \in flags[g] => AfterCompile("compileGlobal", g) = Cur
  /\ \A e \in EnumNames : "COMPILED" \in flags[e] => AfterCompile("compileEnum", e) = Cur
  /\ \A fn \in FunctionNames :
       "COMPILED" \in flags[fn] => AfterCompile("compileFunction", fn) = Cur
  /\ \A k \in ClassNames : "COMPILED" \in flags[k] => AfterCompile("compileClass", k) = Cur
  /\ \A src \in SourceNames :
       "COMPILED" \in flags[src] => AfterCompile("compileSource", src) = Cur
  /\ \A n \in ModuleGlobalNames : moduleGlobals[n] <= 1
  /\ \A n \in GlobalNames : moduleGlobalImports[n] <= 1
  /\ \A n \in ModuleFunctionNames : moduleFunctions[n] <= 1
  /\ \A n \in FunctionNames : moduleFunctionImports[n] <= 1

\* C1 witness: an enum whose members went to the module and to the start body was
\* compiled a second time
CompileIdempotentWitness ==
  /\ lastOp.op = "compileEnum"
  /\ lastOp.target = "M"
  /\ lastOp.repeat
  /\ moduleGlobals["M.X"] = 1
  /\ moduleGlobals["M.Y"] = 1
  /\ Len(startFunctionBody) >= 2

(***************************************************************************)
(* Claims about the function table (checked under SpecTable).              *)
(***************************************************************************)
\* C5: for every compiled function, with or without optional parameters, once
\* ensureFunctionTableEntry(f) has returned index i every later ensureFunctionTableEntry(f)
\* returns the same i and does not append another entry.
TableIndexStable ==
  /\ \A fn \in FunctionNames \cup TrampolineNames : Cardinality(tableReturns[fn]) <= 1
  /\ (lastOp.op = "ensureFunctionTableEntry" /\ lastOp.repeat) => ~lastOp.changed

\* C6: every slot of the function table names a function flagged COMPILED; the slot
\* returned for a function with optional parameters names its trampoline, never the
\* original; the slot returned for any other function names that function.
TableSlots ==
  /\ \A k \in 1..Len(functionTable) : "COMPILED" \in flags[functionTable[k]]
  /\ \A fn \in FunctionNames \cup TrampolineNames :
       \A i \in tableReturns[fn] :
         /\ i + 1 \in 1..Len(functionTable)
         /\ functionTable[i + 1] =
              (IF fn \in FunctionNames /\ minArguments(fn) < maxArguments(fn)
               THEN TrampolineName(fn) ELSE fn)

\* C6 witness: entries were returned for a function with optional parameters, for a
\* function without, and for a trampoline itself
TableSlotsWitness ==
  /\ tableReturns["m"] # {}
  /\ tableReturns["h"] # {}
  /\ tableReturns["m|trampoline"] # {}

(***************************************************************************)
(* Claims about direct calls (checked under SpecCall).                     *)
(***************************************************************************)
\* the number of arguments (without `this`) the last makeCallDirect was given
SuppliedArguments ==
  Len(lastOp.operands) - (IF isInstance(lastOp.target) THEN 1 ELSE 0)

\* the parameters the last makeCallDirect was given no argument for
MissingParameters == (SuppliedArguments + 1)..maxArguments(lastOp.target)

MissingAreConstants ==
  \A i \in MissingParameters :
    Decl(lastOp.target).parameters[i].kind \in {"LITERAL", "NULL", "TRUE", "FALSE"}

\* the operands given, followed by the constants of the missing parameters' initializers
OperandsWithConstants ==
  lastOp.operands \o [k \in 1..(maxArguments(lastOp.target) - SuppliedArguments) |->
                        createI32(Decl(lastOp.target).parameters[SuppliedArguments + k].value)]

\* the operands given, followed by a zero for every missing parameter
OperandsWithZeroes ==
  lastOp.operands \o [k \in 1..(maxArguments(lastOp.target) - SuppliedArguments) |->
                        createI32(0)]

\* a call (or call_import) of the original function with the given operands
EmitsCallOfOriginal(operands) ==
  /\ lastExpr.id \in {"Call", "CallImport"}
  /\ lastExpr.target = lastOp.target
  /\ lastExpr.operands = operands

\* block { set_global(~argc, supplied arguments); call(trampoline, operands padded) }
EmitsTrampolineBlock ==
  /\ lastExpr.id = "Block"
  /\ lastExpr.argc = SuppliedArguments
  /\ lastExpr.target = TrampolineName(lastOp.target)
  /\ lastExpr.operands = OperandsWithZeroes
  /\ argcVar
  /\ moduleGlobals["~argc"] = 1
  /\ trampoline[lastOp.target]

\* C7 as stated: all operands supplied: a plain call of the original; fewer supplied and
\* every missing initializer a constant value: a call of the original with those
\* constants; in every other case with fewer operands: zero padding and a block that
\* sets ~argc to the number of supplied arguments and calls the trampoline.
CallRouting ==
  lastOp.op = "makeCallDirect" =>
    IF MissingParameters = {} THEN EmitsCallOfOriginal(lastOp.operands)
    ELSE IF MissingAreConstants THEN EmitsCallOfOriginal(OperandsWithConstants)
    ELSE EmitsTrampolineBlock

\* C7 amended: as stated, except that for a function that is a module import the last
\* case pads with zeroes and emits a call_import of the original: no ~argc, no trampoline.
CallRoutingExceptImports ==
  lastOp.op = "makeCallDirect" =>
    IF MissingParameters = {} THEN EmitsCallOfOriginal(lastOp.operands)
    ELSE IF MissingAreConstants THEN EmitsCallOfOriginal(OperandsWithConstants)
    ELSE IF "MODULE_IMPORT" \in flags[lastOp.target]
    THEN lastExpr.id = "CallImport" /\ EmitsCallOfOriginal(OperandsWithZeroes)
    ELSE EmitsTrampolineBlock

\* C7 witness: an instance method called with one of its two optional arguments, the
\* missing one not a constant, went through its trampoline
CallRoutingWitness ==
  /\ lastOp.op = "makeCallDirect"
  /\ lastOp.target = "m"
  /\ SuppliedArguments = 1
  /\ lastExpr.id = "Block"
  /\ lastExpr.argc = 1

\* C8 as stated: with function f(a: i32, b: i32 = 2) {}, f(5) emits
\* block { set_global(~argc, 1); call(f|trampoline, 5, 0) } and f(5, 7) emits call(f, 5, 7).
ExampleCalls ==
  (lastOp.op = "makeCallDirect" /\ lastOp.target = "f") =>
    /\ lastOp.operands = <<createI32(5)>> =>
         lastExpr = createArgcBlock(1, "f|trampoline", <<createI32(5), createI32(0)>>, "void")
    /\ lastOp.operands = <<createI32(5), createI32(7)>> =>
         lastExpr = createCall("f", <<createI32(5), createI32(7)>>, "void")

\* C8 amended: with function f(a: i32, b: i32 = 2) {}, f(5) emits call(f, 5, 2), the
\* literal initializer inlined, and f(5, 7) emits call(f, 5, 7); neither creates the
\* trampoline of f.
ExampleCallsInlined ==
  (lastOp.op = "makeCallDirect" /\ lastOp.target = "f") =>
    /\ lastOp.operands = <<createI32(5)>> =>
         lastExpr = createCall("f", <<createI32(5), createI32(2)>>, "void")
    /\ lastOp.operands = <<createI32(5), createI32(7)>> =>
         lastExpr = createCall("f", <<createI32(5), createI32(7)>>, "void")
    /\ ~trampoline["f"]
    /\ moduleFunctions["f|trampoline"] = 0

\* C8 witness: f(5) was emitted as a plain call
ExampleCallsWitness ==
  /\ lastOp.op = "makeCallDirect"
  /\ lastOp.target = "f"
  /\ lastOp.operands = <<createI32(5)>>
  /\ lastExpr.id = "Call"

(***************************************************************************)
(* Claims about the flow of if statements (checked under SpecFlow).        *)
(***************************************************************************)
\* RETURNS is set in the parent flow after the last if statement although it was not
\* set before it
SetsReturns == "RETURNS" \in flow.flags /\ "RETURNS" \notin lastIf.before

\* the merge of the last if statement is sound
MergeSound ==
  /\ ("RETURNS" \in lastIf.ifTrueFlow /\ "RETURNS" \in lastIf.ifFalseFlow)
       => "RETURNS" \in flow.flags
  /\ (lastIf.hasElse /\ ("RETURNS" \in lastIf.ifTrueFlow) # ("RETURNS" \in lastIf.ifFalseFlow))
       => ~SetsReturns
  /\ ~lastIf.hasElse => ~SetsReturns

\* C9 as stated: after any if statement lowered by compileIfStatement the parent flow has
\* RETURNS set if both arm flows set it, does not have it set (unless it already had it)
\* if only one arm set it, and an if without else never sets RETURNS on the parent.
FlowMergeSound == lastOp.op = "compileIfStatement" => MergeSound

\* C9 amended: the same, for every if statement whose arms are forked, that is whose
\* condition is not precomputed to a constant; when the condition is a constant and
\* tree-shaking is on or the function is generic, the live arm is compiled in the flow of
\* the parent and the parent has RETURNS set exactly if it had it or that arm set it.
FlowMergeSoundWhenForked ==
  lastOp.op = "compileIfStatement" =>
    IF lastIf.forked THEN MergeSound
    ELSE ("RETURNS" \in flow.flags)
           <=> ("RETURNS" \in lastIf.before \cup lastIf.ifTrueFlow \cup lastIf.ifFalseFlow)

\* C9 witness: an if/else with forked arms that both return made the parent return, after
\* an earlier one with only one returning arm had not
FlowMergeSoundWitness ==
  /\ lastOp.op = "compileIfStatement"
  /\ lastIf.forked
  /\ lastIf.hasElse
  /\ "RETURNS" \in lastIf.ifTrueFlow
  /\ "RETURNS" \in lastIf.ifFalseFlow
  /\ SetsReturns
  /\ "CONDITIONALLY_BREAKS" \in lastIf.before

(***************************************************************************)
(* Claims about the current type (checked under SpecExpr).                 *)
(***************************************************************************)
\* C10: after every compileExpression(expr, ctxType, IMPLICIT, wrap), for every expression
\* kind and also when a diagnostic was emitted, currentType equals ctxType; and when the
\* inner lowering already produced ctxType, convertExpression is not invoked and no
\* conversion operation is emitted.
TypePropagation ==
  lastCompile.conversionKind = "IMPLICIT" =>
    /\ currentType = lastCompile.contextualType
    /\ lastCompile.innerType = lastCompile.contextualType =>
         /\ lastCompile.conversions = 0
         /\ Range(lastCompile.x) \cap ConversionOps = {}

\* C10 witness: an implicit conversion that emitted a diagnostic and a conversion
\* operation, with the small-integer wrap requested
TypePropagationWitness ==
  /\ lastCompile.conversionKind = "IMPLICIT"
  /\ lastCompile.wrapMode = "WRAP"
  /\ lastCompile.innerType = "f64"
  /\ lastCompile.contextualType = "i8"
  /\ lastCompile.errors # <<>>
  /\ lastCompile.conversions = 1
  /\ currentType = "i8"

(***************************************************************************)
(* Claims about the execution of trampolines (checked under SpecTramp).    *)
(***************************************************************************)
\* the operand index of parameter p (counted from 0) of the function last run
OperandIndex(p) == IF isInstance(lastRun.original) THEN p + 1 ELSE p

\* set_local of the parameters from..(to - 1), in increasing order
InitializersRun(from, to) ==
  [j \in 1..(to - from) |-> Event("set_local", OperandIndex(from + j - 1))]

\* the parameters at or after ~argc that have no initializer
WithoutInitializer ==
  {p \in lastRun.argc..(maxArguments(lastRun.original) - 1) :
     Decl(lastRun.original).parameters[p + 1].kind = "NONE"}

\* the trampoline ran the initializers of the parameters ~argc..max-1 in order and then
\* called the original once with all operands
DispatchedToOriginal ==
  /\ lastRun.trace = InitializersRun(lastRun.argc, maxArguments(lastRun.original))
                       \o <<Event("call", maxOperands(lastRun.original))>>
  /\ lastRun.outcome = "next"

\* the trampoline reached unreachable and never called the original
Trapped ==
  /\ lastRun.outcome = "trap"
  /\ \A k \in 1..Len(lastRun.trace) : lastRun.trace[k].ev # "call"

\* C11 as stated: with min <= ~argc <= max the trampoline runs exactly the initializers of
\* the parameters ~argc..max-1 in increasing order and then calls the original once with
\* all max operands; with ~argc outside that range it reaches unreachable and never calls
\* the original.
TrampolineDispatch ==
  lastRun.original # "" =>
    IF lastRun.argc \in minArguments(lastRun.original)..maxArguments(lastRun.original)
    THEN DispatchedToOriginal
    ELSE Trapped /\ lastRun.trace = <<Event("unreachable", 0)>>

\* C11 amended: as stated when every parameter from ~argc on has an initializer; when one
\* of them has none, the trampoline runs the initializers before the first such parameter
\* in order, then reaches the unreachable that stands for its initializer, and never calls
\* the original.
TrampolineDispatchWithInitializers ==
  lastRun.original # "" =>
    IF lastRun.argc \notin minArguments(lastRun.original)..maxArguments(lastRun.original)
    THEN Trapped /\ lastRun.trace = <<Event("unreachable", 0)>>
    ELSE IF WithoutInitializer = {} THEN DispatchedToOriginal
    ELSE /\ Trapped
         /\ \E p \in WithoutInitializer :
              /\ \A q \in WithoutInitializer : p <= q
              /\ lastRun.trace = InitializersRun(lastRun.argc, p) \o <<Event("unreachable", 0)>>

\* C11 witness: the trampoline of an instance method with two optional parameters, run
\* with one argument supplied, initialized the second parameter only and called through
TrampolineDispatchWitness ==
  /\ lastRun.original = "m"
  /\ lastRun.argc = 1
  /\ lastRun.trace = <<Event("set_local", 2), Event("call", 3)>>

(***************************************************************************)
(* Claims about the checking of calls (checked under SpecSig).             *)
(***************************************************************************)
\* the call is well-formed for the signature
WellFormedCall(signature, numArguments, hasThis) ==
  /\ hasThis = signature.thisType
  /\ ~signature.hasRest
  /\ signature.requiredParameters <= numArguments
  /\ numArguments <= signature.parameterTypes

\* C12: checkCallSignature returns true exactly when hasThis agrees with the presence of
\* a this type, the signature has no rest parameter and the number of arguments lies
\* between requiredParameters and the number of parameter types; it reports no
\* diagnostic when it returns true and exactly one when it returns false; and each of
\* compileCallDirect, compileCallIndirect and compileGetter returns `unreachable` and
\* emits no call when the check fails.
CheckCallSignatureDecides ==
  lastCheck.count > 0 =>
    /\ lastCheck.result
          = WellFormedCall(lastCheck.signature, lastCheck.numArguments, lastCheck.hasThis)
    /\ lastCheck.caller = "checkCallSignature" =>
          /\ lastCheck.x = (IF lastCheck.result THEN "true" ELSE "false")
          /\ lastCheck.reported = (IF lastCheck.result THEN 0 ELSE 1)
    /\ (lastCheck.caller # "checkCallSignature" /\ ~lastCheck.result) =>
          /\ lastCheck.x = "Unreachable"
          /\ ~lastCheck.emitted
          /\ lastCheck.reported = 1
    /\ ~WellFormedCall(lastCheck.signature, lastCheck.numArguments, lastCheck.hasThis) =>
          /\ lastCheck.x \in {"false", "Unreachable"}
          /\ ~lastCheck.emitted

\* a caller has rejected a call with too many arguments
CheckCallSignatureWitness ==
  /\ lastCheck.caller = "compileCallIndirect"
  /\ lastCheck.signature = Signature(FALSE, FALSE, 1, 2)
  /\ lastCheck.numArguments = 3
  /\ ~lastCheck.result
  /\ lastCheck.x = "Unreachable"
  /\ diagnostics["Expected_0_arguments_but_got_1"] = 1

(***************************************************************************)
(* Claims about the termination of compilation (checked under SpecCycle).  *)
(***************************************************************************)
\* compile() has returned
Terminated == compileStarted /\ callStack = <<>>

\* C13 (as stated): compilation terminates for programs with cyclic imports and with
\* directly or mutually recursive functions, and the statements of each source and the
\* body of each function are lowered at most once.
CycleTermination ==
  /\ [](\A n \in UnitSources : loweredTimes[n] <= 1)
  /\ [](\A n \in UnitFunctions : loweredTimes[n] + inlinedTimes[n] <= 1)
  /\ <>Terminated

\* C13 (amended): compilation terminates for these programs, compileSource lowers the
\* statements of each source at most once and compileFunction lowers the body of each
\* function at most once; the body of a function decorated @inline is lowered once
\* more at each call that is inlined.
CycleTerminationOncePerCompile ==
  /\ [](\A n \in UnitNames : loweredTimes[n] <= 1)
  /\ [](\A n \in UnitFunctions \ unit.inline : inlinedTimes[n] = 0)
  /\ <>Terminated

\* compile() has returned for the program whose two sources import each other and whose
\* functions call themselves and each other, each lowered once
CycleTerminationWitness ==
  /\ Terminated
  /\ unit.imports = [source \in UnitSources |-> UnitSources]
  /\ unit.calls = [fn \in UnitFunctions |-> UnitFunctions]
  /\ unit.inline = {}
  /\ \A n \in UnitNames : loweredTimes[n] = 1

(***************************************************************************)
(* Claims about the inlining of calls (checked under SpecCycle).           *)
(***************************************************************************)
\* the functions being inlined by the calls in progress, outermost first
InlineFrames ==
  LET frames == SelectSeq(callStack, LAMBDA fr : fr.op = "compileCallInlineUnchecked")
  IN [i \in 1..Len(frames) |-> frames[i].target]

\* a call has just been compiled by compileCallDirect
CallCompiled ==
  /\ Len(callStack') = Len(callStack) + 1
  /\ callStack'[Len(callStack')].op # "compileSource"

\* C20: a function that is already on currentInlineFunctions is never inlined again
\* (the call gets a warning and is compiled as an ordinary call), a function is pushed
\* before its body is lowered inline and popped after, so that the stack after an inlined
\* call equals the stack before it, and the inlining of recursive @inline functions
\* terminates.
InlineRecursionGuard ==
  /\ [](\A i, j \in 1..Len(currentInlineFunctions) :
          currentInlineFunctions[i] = currentInlineFunctions[j] => i = j)
  /\ [](InlineFrames = currentInlineFunctions)
  /\ [](lastInlineReturn.before = lastInlineReturn.after)
  /\ [][CallCompiled =>
          /\ lastCall'.decision = "inlined" <=> (lastCall'.inline /\ ~lastCall'.onStack)
          /\ lastCall'.onStack = (lastCall'.callee \in Range(currentInlineFunctions))
          /\ inlineWarnings' = (IF lastCall'.inline /\ lastCall'.onStack
                                THEN inlineWarnings + 1 ELSE inlineWarnings)
          /\ callStack'[Len(callStack')].op
               = (IF lastCall'.inline /\ ~lastCall'.onStack
                  THEN "compileCallInlineUnchecked" ELSE "compileFunction")]_vars
  /\ <>Terminated

\* compile() has returned for a program whose functions are all @inline and call
\* themselves and each other: calls were inlined and calls were refused with the warning
InlineRecursionGuardWitness ==
  /\ Terminated
  /\ unit.inline = UnitFunctions
  /\ unit.calls = [fn \in UnitFunctions |-> UnitFunctions]
  /\ inlineWarnings > 0
  /\ lastInlineReturn.count = 1
  /\ currentInlineFunctions = <<>>

(***************************************************************************)
(* Claims about the module-level code (checked under SpecDecl).            *)
(***************************************************************************)
\* compile() has compiled the entry source of the program and nothing else was called
EntryCompiled ==
  /\ compileCalls = 1
  /\ lastOp.op = "compileSource"
  /\ SourceDecl(lastOp.target).isEntry

\* C14: once the entry source is compiled, the entries of the start function body that
\* come from the statements of one source appear in the textual order of those
\* statements, also when a global is referenced from a statement that precedes its
\* declaration.
StartBodyInSourceOrder ==
  EntryCompiled =>
    \A i, j \in 1..Len(startOrigins) :
      (i < j /\ startOrigins[i].source = startOrigins[j].source)
        => startOrigins[i].index <= startOrigins[j].index

(***************************************************************************)
(* Claims about the initial memory (checked under SpecMem).                *)
(***************************************************************************)
\* ceil(offset / 65536)
PagesHolding(offset) == (offset + pageSize - 1) \div pageSize

\* C18 (as stated): the initial page count passed to setMemory is
\* ceil(memoryOffset / 65536) of the final, pointer-aligned memoryOffset, whatever
\* segments were added, also when none was.
InitialPages ==
  sealed => initialPages = PagesHolding(memoryOffset)

\* C18 (amended): the initial page count passed to setMemory is
\* ceil(memoryOffset / 65536) of the final, pointer-aligned memoryOffset when at least
\* one segment was added, and 0 when none was.
InitialPagesOfSegments ==
  sealed =>
    /\ memoryOffset % usizeByteSize = 0
    /\ initialPages = (IF memorySegments # <<>> THEN PagesHolding(memoryOffset) ELSE 0)

\* memory was sealed with segments that reach into the second page
InitialPagesWitness ==
  /\ sealed
  /\ Len(memorySegments) >= 2
  /\ memoryOffset > pageSize
  /\ initialPages = 2

(***************************************************************************)
(* Claims about the ~argc helpers (checked under SpecArgc).                *)
(***************************************************************************)
RECURSIVE ReadsArgc(_)
\* the body reads the ~argc global
ReadsArgc(node) ==
  \/ node = getArgc
  \/ \E i \in 1..Len(node.children) : ReadsArgc(node.children[i])

\* the module holds a trampoline body, a call site or a ~setargc body that refers to ~argc
ArgcReferenced ==
  \/ \E t \in TrampolineNames : ReadsArgc(moduleFunctionBody[t])
  \/ lastExpr.id = "Block" /\ lastExpr.argc >= 0
  \/ moduleFunctions["~setargc"] > 0

\* C15: over any sequence of makeCallDirect, makeCallIndirect, makeModuleExport and
\* ensureFunctionTableEntry calls the ~argc global and the ~setargc function are each
\* defined at most once, and ~argc is defined whenever a trampoline body, a call site or
\* the ~setargc body refers to it.
ArgcDefinedWhenNeeded ==
  /\ moduleGlobals["~argc"] <= 1
  /\ moduleFunctions["~setargc"] <= 1
  /\ ArgcReferenced => moduleGlobals["~argc"] = 1

(***************************************************************************)
(* Claims about the start function (checked under SpecStart).              *)
(***************************************************************************)
\* C16: after the traversal the start function is added exactly when the start body is
\* not empty or the program has a user main, and it is made the start of the module
\* exactly when it was added and there is no user main; the ~started global is created
\* only by compiling the function flagged MAIN, and at most once.
StartAssembly ==
  /\ moduleFunctions["start"] = (IF sealed /\ (startFunctionBody # <<>> \/ mainFunction)
                                 THEN 1 ELSE 0)
  /\ (moduleStart = "start") = (moduleFunctions["start"] = 1 /\ ~mainFunction)
  /\ moduleStart \in {"", "start"}
  /\ moduleGlobals["~started"]
       = (IF \E fn \in FunctionNames : isMain(fn) /\ "COMPILED" \in flags[fn] THEN 1 ELSE 0)

\* compile() has finished a program with a user main that was compiled: the start
\* function is added, it is not the start of the module, and ~started exists
StartAssemblyWitness ==
  /\ sealed
  /\ mainFunction
  /\ "COMPILED" \in flags["main"]
  /\ startFunctionBody # <<>>
  /\ moduleFunctions["start"] = 1
  /\ moduleStart = ""
  /\ moduleGlobals["~started"] = 1

(***************************************************************************)
(* C17: the tree-shaking policy of compileSource.                          *)
(***************************************************************************)
\* the calls compileSource made for the statement at a position
LowererCallsAt(pos) == {call.lowerer : call \in {x \in lowererCalls : x.at = pos}}

\* noTreeShaking is set, or the declaration carries EXPORT and its source is an entry source
TreeShakingSelected(pos) ==
  \/ noTreeShaking
  \/ /\ SourceDecl(pos.source).isEntry
     /\ SourceDecl(pos.source).statements[pos.index].export

DeclarationKinds ==
  {"CLASSDECLARATION", "ENUMDECLARATION", "FUNCTIONDECLARATION", "NAMESPACEDECLARATION"}

DeclarationLowerer(kind) ==
  CASE kind = "CLASSDECLARATION" -> "compileClassDeclaration"
    [] kind = "ENUMDECLARATION" -> "compileEnumDeclaration"
    [] kind = "FUNCTIONDECLARATION" -> "compileFunctionDeclaration"
    [] kind = "NAMESPACEDECLARATION" -> "compileNamespaceDeclaration"

\* C17 as stated: in a compiled source, a class, enum, function or namespace declaration is
\* handed to its lowerer exactly when noTreeShaking is set or it is an export of an entry
\* source, an import compiles its target source, and every other statement is appended to the
\* start function body.
TreeShakingPolicy ==
  \A pos \in Positions :
    "COMPILED" \in flags[pos.source] =>
      LET st == SourceDecl(pos.source).statements[pos.index]
      IN CASE st.kind \in DeclarationKinds ->
                (DeclarationLowerer(st.kind) \in LowererCallsAt(pos)) <=> TreeShakingSelected(pos)
           [] st.kind = "IMPORT" -> "compileSourceByPath" \in LowererCallsAt(pos)
           [] OTHER -> "startFunctionBody.push" \in LowererCallsAt(pos)

\* the calls the code makes for the statement at a position
ExpectedCalls(pos) ==
  LET st == SourceDecl(pos.source).statements[pos.index]
  IN CASE st.kind \in {"CLASSDECLARATION", "FUNCTIONDECLARATION"} ->
            IF TreeShakingSelected(pos) /\ ~st.isGeneric
            THEN {DeclarationLowerer(st.kind)} ELSE {}
       [] st.kind \in {"ENUMDECLARATION", "NAMESPACEDECLARATION"} ->
            IF TreeShakingSelected(pos) THEN {DeclarationLowerer(st.kind)} ELSE {}
       [] st.kind = "IMPORT" -> {"compileSourceByPath"}
       [] st.kind = "INTERFACEDECLARATION" -> {}
       [] st.kind = "VARIABLE" -> {"compileVariableStatement"}
       [] st.kind = "EXPORT" ->
            (IF st.target # "" THEN {"compileSourceByPath"} ELSE {})
              \cup (IF noTreeShaking \/ SourceDecl(pos.source).isEntry
                    THEN {"compileExportStatement"} ELSE {})
       [] OTHER -> {"compileStatement", "startFunctionBody.push"}

\* C17, amended: in a compiled source, a class or function declaration is handed to its lowerer
\* exactly when it is selected and not generic, an enum or namespace declaration exactly when
\* it is selected, an import compiles its target source or reports the missing file, an
\* interface declaration is skipped, a variable statement is compiled to globals and not
\* appended, an export statement is compiled when noTreeShaking is set or the source is an
\* entry source, and only the remaining statements are appended to the start function body.
TreeShakingPolicyOfNonGeneric ==
  \A pos \in Positions :
    LET st == SourceDecl(pos.source).statements[pos.index]
    IN IF "COMPILED" \in flags[pos.source]
       THEN /\ LowererCallsAt(pos) = ExpectedCalls(pos)
            /\ st.kind = "IMPORT" =>
                 IF st.target \in SourceNames THEN "COMPILED" \in flags[st.target]
                 ELSE diagnostics["File_0_not_found"] > 0
            /\ "startFunctionBody.push" \in LowererCallsAt(pos) => pos \in Range(startOrigins)
       ELSE LowererCallsAt(pos) = {}

\* both sources are compiled with tree shaking: the exported function f of the entry source
\* was lowered, its unexported function h, its exported generic function and the exported
\* enum of the library source were not
TreeShakingPolicyWitness ==
  /\ ~noTreeShaking
  /\ \A src \in SourceNames : "COMPILED" \in flags[src]
  /\ LowererCallsAt(Position("entry", 2)) = {"compileFunctionDeclaration"}
  /\ LowererCallsAt(Position("entry", 3)) = {}
  /\ SourceDecl("entry").statements[10].isGeneric
  /\ TreeShakingSelected(Position("entry", 10))
  /\ LowererCallsAt(Position("entry", 10)) = {}
  /\ SourceDecl("lib").statements[3].export
  /\ LowererCallsAt(Position("lib", 3)) = {}

(***************************************************************************)
(* C19: const-enum propagation.                                            *)
(***************************************************************************)
\* C19: once `const enum E { A, B, C = A + B }` is compiled its three members are INLINED, and
\* a reference to E.C by property access lowers to i32.const 1, not to get_global.
ConstEnumPropagation ==
  /\ "COMPILED" \in flags["E"] => \A v \in {"E.A", "E.B", "E.C"} : "INLINED" \in flags[v]
  /\ (lastOp.op = "compilePropertyAccessExpression" /\ lastOp.target = "E.C")
       => lastExpr = createI32(1)


(***************************************************************************)
(* C21: type-error recovery.  Whenever compileBinaryExpression or the      *)
(* lowering of a call reports a type error (operator not applicable to     *)
(* the operand types or to a float operand, argument count or signature    *)
(* mismatch), it returns `unreachable` and currentType is the contextual   *)
(* type it was called with.                                                *)
(***************************************************************************)
TypeErrorCodes ==
  {"Operator_0_cannot_be_applied_to_types_1_and_2", "The_0_operator_cannot_be_applied_to_type_1",
   "Expected_0_arguments_but_got_1", "Expected_at_least_0_arguments_but_got_1",
   "Operation_not_supported"}

ReportsTypeError ==
  /\ lastLowering.op \in {"compileBinaryExpression", "compileCallExpression"}
  /\ Range(lastLowering.result.errors) \cap TypeErrorCodes # {}

TypeErrorRecovery ==
  ReportsTypeError =>
    /\ lastLowering.result.x = <<"Unreachable">>
    /\ currentType = lastLowering.input.contextualType

(***************************************************************************)
(* C22: fork/free pairing.  Block, if, do, while, for, switch and ternary  *)
(* lowering pair every Flow.fork with a Flow.free and every                *)
(* enterBreakContext with a leaveBreakContext, properly nested, and leave  *)
(* currentFunction.flow what it was on entry, also where a diagnostic was  *)
(* reported.                                                               *)
(***************************************************************************)
FunctionOps == {"compileStatement", "compileExpression"}

RECURSIVE Nested(_, _, _)
\* the calls log[i..] are properly nested given the flows and contexts open so far
Nested(log, i, open) ==
  IF i > Len(log) THEN open = <<>>
  ELSE IF log[i][1] \in {"fork", "enterBreakContext"}
  THEN Nested(log, i + 1, Append(open, log[i]))
  ELSE /\ open # <<>>
       /\ open[Len(open)] = <<IF log[i][1] = "free" THEN "fork" ELSE "enterBreakContext", log[i][2]>>
       /\ Nested(log, i + 1, SubSeq(open, 1, Len(open) - 1))

ForkFreePaired ==
  lastLowering.op \in FunctionOps =>
    LET before == lastLowering.input.f
        after == lastLowering.result.f
    IN /\ Nested(after.log, 1, <<>>)
       /\ \A id \in (Len(before.flows) + 1)..Len(after.flows) : after.flows[id].freed = 1
       /\ \A id \in 1..Len(before.flows) : after.flows[id].freed = before.flows[id].freed
       /\ after.flow = before.flow
       /\ after.breakStack = before.breakStack

\* a loop in a loop, three flows or more were forked and a diagnostic was reported
ForkFreePairedWitness ==
  /\ lastLowering.op = "compileStatement"
  /\ lastLowering.input.statement.kind \in {"DO", "WHILE", "FOR"}
  /\ lastLowering.result.f.errors # <<>>
  /\ lastLowering.result.f.nextBreakId >= 2
  /\ Len(lastLowering.result.f.flows) >= 4
  /\ ForkFreePaired

(***************************************************************************)
(* C23: temporary-local pairing.  Every temporary local a lowering routine *)
(* acquires with getTempLocal is released before the routine returns, on   *)
(* success and error paths alike: after lowering an expression or a        *)
(* statement the current function holds the temporaries it held before     *)
(* (switch, array literal, object literal, postfix ++, indexed tee         *)
(* assignment, makeAllocate).                                              *)
(***************************************************************************)
TempLocalsPaired ==
  lastLowering.op \in FunctionOps =>
    lastLowering.result.f.tempLocals = lastLowering.input.f.tempLocals

(***************************************************************************)
(* C24: wrapping conversion.  For every integer source type and every      *)
(* short integer destination type (i8, u8, i16, u16, bool),                *)
(* convertExpression called with WrapMode.WRAP yields a 32-bit value in    *)
(* the value range of the destination type.                                *)
(***************************************************************************)
WrappedConversionInRange ==
  (/\ lastLowering.op = "convertExpression"
   /\ lastLowering.input.wrapMode = "WRAP"
   /\ lastLowering.input.toType \in ShortIntegerTypes)
  => lastLowering.result.value \in valueRange(lastLowering.input.toType)

\* the operations of the nodes of an expression
RECURSIVE nodeOps(_)
nodeOps(x) == {x.op} \cup UNION {nodeOps(x.children[i]) : i \in DOMAIN x.children}

\* `this.name = value`, name a readonly field, was compiled in a function that is not a
\* constructor
ReadonlyFieldAssigned ==
  /\ lastLowering.op = "compileExpression"
  /\ lastLowering.input.expression.kind = "BINARY"
  /\ lastLowering.input.expression.target = "="
  /\ lastLowering.input.expression.args[1].kind = "PROPERTYACCESS"
  /\ "READONLY" \in fieldOf("P", lastLowering.input.expression.args[1].target).flags
  /\ "CONSTRUCTOR" \notin lastLowering.input.f.functionFlags

(***************************************************************************)
(* C25: readonly enforcement.  An assignment to a field declared readonly, *)
(* compiled while the current function is not a constructor, reports       *)
(* "cannot assign because it is a constant or a read-only property" and    *)
(* lowers to unreachable, with no store emitted, whether or not the        *)
(* declaration of the field has an initializer.                            *)
(***************************************************************************)
ReadonlyFieldEnforced ==
  ReadonlyFieldAssigned =>
    /\ \E i \in DOMAIN lastLowering.result.f.errors :
         lastLowering.result.f.errors[i]
           = "Cannot_assign_to_0_because_it_is_a_constant_or_a_read_only_property"
    /\ lastLowering.result.x = createUnreachableNode
    /\ "Store" \notin nodeOps(lastLowering.result.x)

\* the claim holds of the readonly fields declared without an initializer
ReadonlyFieldWithoutInitializerEnforced ==
  (/\ ReadonlyFieldAssigned
   /\ fieldOf("P", lastLowering.input.expression.args[1].target).initializer = NoExpr)
  => ReadonlyFieldEnforced

\* an if statement was compiled whose condition precomputes to an i32 constant
ConstantIfCompiled ==
  /\ lastLowering.op = "compileStatement"
  /\ lastLowering.input.statement.kind = "IF"
  /\ nodeIsConstantValue(lastLowering.input.statement.expression.kind)

\* the statement was lowered as its live arm alone, in the flow of the if statement: the
\* result and the function are those of lowering the live arm in its place (a nop and the
\* function untouched when the condition is false and there is no else)
OnlyLiveArmLowered ==
  LET stmt == lastLowering.input.statement
      f == FunctionConstructed(Cur, lastLowering.input.f.functionFlags)
      live == IF stmt.expression.value # 0 THEN compileStatementF(f, stmt.body[1])
              ELSE IF Len(stmt.body) = 2 THEN compileStatementF(f, stmt.body[2])
              ELSE [f |-> f, x |-> createNop]
  IN /\ lastLowering.result.x = live.x
     /\ lastLowering.result.f = FunctionOnly(live.f)

(***************************************************************************)
(* C26: dead-arm elision in compileIfStatement.  When the condition        *)
(* precomputes to an i32 constant, and tree shaking is on or the enclosing *)
(* function is GENERIC or GENERIC_CONTEXT, only the live arm is lowered    *)
(* (a nop when the condition is false and there is no else), in the parent *)
(* flow and without forking.                                               *)
(***************************************************************************)
DeadArmElided ==
  (ConstantIfCompiled /\ (~noTreeShaking \/ genericContext)) => OnlyLiveArmLowered

\* a constant false condition with an else that itself branches, in a generic function
\* compiled with noTreeShaking: the if statement left is the one of the else arm
DeadArmElidedWitness ==
  /\ ConstantIfCompiled
  /\ noTreeShaking /\ genericContext
  /\ lastLowering.input.statement.expression.value = 0
  /\ Len(lastLowering.input.statement.body) = 2
  /\ lastLowering.input.statement.body[2].kind = "IF"
  /\ OnlyLiveArmLowered
  /\ lastLowering.result.x.op = "If"

\* C26 as stated: in a function that is neither GENERIC nor GENERIC_CONTEXT the dead arm
\* is elided for every setting of noTreeShaking
DeadArmElidedInNonGeneric ==
  (ConstantIfCompiled /\ ~genericContext) => OnlyLiveArmLowered

\* a while or for loop was compiled and its body was lowered in a flow of its own, the
\* first flow forked
LoopCompiled(kinds) ==
  /\ lastLowering.op = "compileStatement"
  /\ lastLowering.input.statement.kind \in kinds
  /\ Len(lastLowering.result.f.flows) >= 2

\* the condition of the loop compiled precomputes to a non-zero constant, or is omitted
LoopConditionAlwaysTrue ==
  LET condition == lastLowering.input.statement.expression
  IN \/ nodeIsConstantValue(condition.kind) /\ condition.value # 0
     \/ lastLowering.input.statement.kind = "FOR" /\ condition = NoExpr

\* the flags of the function's flow after the loop: those of the flow of the body, merged
\* unconditionally when the condition is always true and conditionally when it is not a
\* constant (the function's flow had no flag set before)
LoopFlowMerged ==
  LET parent == lastLowering.result.f.flows[1]
      body == lastLowering.result.f.flows[2]
      condition == lastLowering.input.statement.expression
  IN /\ LoopConditionAlwaysTrue => parent.flags = body.flags
     /\ (condition # NoExpr /\ ~nodeIsConstantValue(condition.kind))
          => parent.flags = UNION {Weaken(bit) : bit \in body.flags}

(***************************************************************************)
(* C27: always-true loop conditions.  For while and for loops, when the    *)
(* condition precomputes to a non-zero constant (or is omitted in a for),  *)
(* the flow of the body is merged into the parent flow with unconditional  *)
(* inherit, so `while (true) { return x; }` leaves RETURNS set on the      *)
(* parent; when the condition is not a constant the flow of the body is    *)
(* merged with inheritConditional.                                         *)
(***************************************************************************)
AlwaysTrueLoopInherits == LoopCompiled({"WHILE", "FOR"}) => LoopFlowMerged

\* the for loops merge as the claim says
AlwaysTrueForInherits == LoopCompiled({"FOR"}) => LoopFlowMerged

\* `for (;;) return;` leaves RETURNS set on the flow of the function
AlwaysTrueForReturns ==
  /\ LoopCompiled({"FOR"})
  /\ LoopConditionAlwaysTrue
  /\ "RETURNS" \in lastLowering.result.f.flows[1].flags

\* the paths through a statement, for the statements of the model: whether some path
\* reaches the end of the statement (completes), and whether some path executes a `break`
\* that leaves the loop or switch the statement is directly in (breaksOut).  The
\* condition of an if is taken either way unless it is a constant; a break in a nested
\* loop leaves the nested loop only
RECURSIVE completes(_)
RECURSIVE breaksOut(_)
RECURSIVE breaksOutOf(_, _)

completes(stmt) ==
  CASE stmt.kind \in {"RETURN", "THROW", "BREAK", "CONTINUE"} -> FALSE
    [] stmt.kind = "BLOCK" -> \A i \in DOMAIN stmt.body : completes(stmt.body[i])
    [] stmt.kind = "IF" ->
         IF nodeIsConstantValue(stmt.expression.kind)
         THEN (IF stmt.expression.value # 0 THEN completes(stmt.body[1])
               ELSE Len(stmt.body) = 1 \/ completes(stmt.body[2]))
         ELSE completes(stmt.body[1]) \/ Len(stmt.body) = 1 \/ completes(stmt.body[2])
    [] OTHER -> TRUE

\* some path through stmts[i..] breaks out
breaksOutOf(stmts, i) ==
  /\ i <= Len(stmts)
  /\ \/ breaksOut(stmts[i])
     \/ completes(stmts[i]) /\ breaksOutOf(stmts, i + 1)

breaksOut(stmt) ==
  CASE stmt.kind = "BREAK" -> stmt.expression = NoExpr
    [] stmt.kind = "BLOCK" -> breaksOutOf(stmt.body, 1)
    [] stmt.kind = "IF" ->
         IF nodeIsConstantValue(stmt.expression.kind)
         THEN (IF stmt.expression.value # 0 THEN breaksOut(stmt.body[1])
               ELSE Len(stmt.body) = 2 /\ breaksOut(stmt.body[2]))
         ELSE breaksOut(stmt.body[1]) \/ (Len(stmt.body) = 2 /\ breaksOut(stmt.body[2]))
    [] OTHER -> FALSE

\* a do-while loop, a for loop whose condition is always true, or a switch with a default
\* case was lowered without a diagnostic
BreakableCompiled ==
  /\ lastLowering.op = "compileStatement"
  /\ \/ lastLowering.input.statement.kind = "DO"
     \/ lastLowering.input.statement.kind = "FOR" /\ LoopConditionAlwaysTrue
     \/ /\ lastLowering.input.statement.kind = "SWITCH"
        /\ defaultIndexOf(lastLowering.input.statement.body) >= 0
  /\ lastLowering.result.f.errors = <<>>

\* some path leaves the construct compiled through a `break`
LeavesThroughBreak ==
  LET stmt == lastLowering.input.statement
  IN IF stmt.kind = "SWITCH"
     THEN \E i \in DOMAIN stmt.body : breaksOutOf(stmt.body[i].body, 1)
     ELSE breaksOut(stmt.body[1])

(***************************************************************************)
(* C28: loop and switch flow soundness.  After lowering a do-while loop, a *)
(* for loop whose condition is always true, or a switch with a default     *)
(* case, the parent flow has RETURNS set only if no path leaves the        *)
(* construct through a `break` without returning; a body or case of the    *)
(* form `if (c) break; return v;` must not leave RETURNS set.              *)
(***************************************************************************)
BreakClearsReturns ==
  (BreakableCompiled /\ "RETURNS" \in lastLowering.result.f.flows[1].flags)
    => ~LeavesThroughBreak

\* ---------------------------------------------------------------------------------------
\* Executing the IR of a statement.  The values read from memory and from mutable
\* globals are taken from a sequence of readings; the run stops when the readings or the
\* allowed loop repetitions are used up
\* ---------------------------------------------------------------------------------------

\* what a run records: a loop body is entered, a `br` is taken, a `br_if` is evaluated
Enter(label) == [kind |-> "enter", label |-> label, value |-> TRUE]
Branch(label) == [kind |-> "br", label |-> label, value |-> TRUE]
BranchIf(label, value) == [kind |-> "br_if", label |-> label, value |-> value]

\* the state of a run; exit is how the node just executed was left: to the next node, by a
\* branch to exitLabel, by a return, by a trap, or because the run stopped
Running(readings, fuel) ==
  [trace |-> <<>>, readings |-> readings, fuel |-> fuel, exit |-> "next", exitLabel |-> null,
   value |-> FALSE]
Left(st, exit, exitLabel) == [st EXCEPT !.exit = exit, !.exitLabel = exitLabel]
Recorded(st, event) == [st EXCEPT !.trace = Append(@, event)]

RECURSIVE execNode(_, _)
RECURSIVE execNodes(_, _, _)
RECURSIVE evalNode(_, _)

\* the truth value of an expression, in st.value; a reading is consumed by every
\* expression that is not a constant
evalNode(x, st) ==
  IF x.op = "Const" THEN [st EXCEPT !.value = x.index # 0]
  ELSE IF x.op = "Unary.EqzI32"
  THEN LET inner == evalNode(x.children[1], st)
       IN [inner EXCEPT !.value = ~inner.value]
  ELSE IF st.readings = <<>> THEN Left(st, "stop", null)
  ELSE [st EXCEPT !.value = Head(st.readings), !.readings = Tail(st.readings)]

\* the children of a block from the i-th on, until one does not leave to the next
execNodes(children, i, st) ==
  IF i > Len(children) THEN st
  ELSE LET after == execNode(children[i], st)
       IN IF after.exit = "next" THEN execNodes(children, i + 1, after) ELSE after

execNode(x, st) ==
  CASE x.op = "Block" ->
         (LET after == execNodes(x.children, 1, st)
          IN IF after.exit = "br" /\ after.exitLabel = x.label THEN Left(after, "next", null)
             ELSE after)
    [] x.op = "Loop" ->
         (LET after == execNode(x.children[1], Recorded(st, Enter(x.label)))
          IN IF after.exit = "br" /\ after.exitLabel = x.label
             THEN IF after.fuel = 0 THEN Left(after, "stop", null)
                  ELSE execNode(x, [Left(after, "next", null) EXCEPT !.fuel = @ - 1])
             ELSE after)
    [] x.op = "If" ->
         (LET cond == evalNode(x.children[1], st)
          IN IF cond.exit # "next" THEN cond
             ELSE IF cond.value THEN execNode(x.children[2], cond)
             ELSE IF Len(x.children) = 3 THEN execNode(x.children[3], cond)
             ELSE cond)
    [] x.op = "Break" ->
         IF x.children = <<>>
         THEN Left(Recorded(st, Branch(x.label)), "br", x.label)
         ELSE (LET cond == evalNode(x.children[1], st)
               IN IF cond.exit # "next" THEN cond
                  ELSE IF cond.value
                  THEN Left(Recorded(cond, BranchIf(x.label, TRUE)), "br", x.label)
                  ELSE Recorded(cond, BranchIf(x.label, FALSE)))
    [] x.op = "Return" -> Left(st, "return", null)
    [] x.op \in {"Unreachable", "Abort"} -> Left(st, "trap", null)
    [] OTHER -> st

\* the sequences of at most n readings
Readings(n) == UNION {[1..k -> BOOLEAN] : k \in 0..n}

\* the runs of the IR of the statement lowered
Runs ==
  {execNode(lastLowering.result.x, Running(readings, MaxRepeats)) :
     readings \in Readings(MaxReadings)}

\* a do-while loop, the statement of the function, was lowered without a diagnostic; its
\* labels are break|0 and continue|0
DoCompiled ==
  /\ lastLowering.op = "compileStatement"
  /\ lastLowering.input.statement.kind = "DO"
  /\ lastLowering.result.f.errors = <<>>

\* in a run, the body of the loop continue|0 is entered again only after its condition
\* was evaluated, and was true, since it was last entered
RepeatsOnCondition(run) ==
  LET loop == Label("continue", 0)
      trace == run.trace
  IN \A j \in DOMAIN trace :
       (trace[j] = Enter(loop) /\ \E i \in 1..(j - 1) : trace[i] = Enter(loop))
         => LET last == CHOOSE i \in 1..(j - 1) :
                          /\ trace[i] = Enter(loop)
                          /\ \A k \in (i + 1)..(j - 1) : trace[k] # Enter(loop)
            IN \E k \in (last + 1)..(j - 1) : trace[k] = BranchIf(loop, TRUE)

\* a run that leaves the loop to the statement after it does so by a `break` or after the
\* condition was evaluated and was false
LeavesOnCondition(run) ==
  LET trace == run.trace
  IN run.exit = "next" =>
       \E k \in DOMAIN trace :
         /\ trace[k] \in {BranchIf(Label("continue", 0), FALSE), Branch(Label("break", 0)),
                          BranchIf(Label("break", 0), TRUE)}
         /\ \A i \in (k + 1)..Len(trace) : trace[i].label # Label("continue", 0)

(***************************************************************************)
(* C29: the condition of a do-while is always consulted.  In the IR        *)
(* emitted for `do body while (cond)`, every iteration in which the body   *)
(* completes normally or executes `continue` is followed by an evaluation  *)
(* of cond, and the loop repeats only if cond is truthy.                   *)
(***************************************************************************)
DoConditionConsulted ==
  DoCompiled => \A run \in Runs : RepeatsOnCondition(run) /\ LeavesOnCondition(run)

\* the do-while loops without a `continue` in them consult the condition
DoWithoutContinueConsulted ==
  (DoCompiled /\ \A run \in Runs : \A i \in DOMAIN run.trace :
                   run.trace[i] # Branch(Label("continue", 0)))
    => \A run \in Runs : RepeatsOnCondition(run) /\ LeavesOnCondition(run)

\* the globals an expression writes with set_global
RECURSIVE setGlobalTargets(_)
setGlobalTargets(x) ==
  (IF x.op = "SetGlobal" THEN {x.label[1]} ELSE {})
    \cup UNION {setGlobalTargets(x.children[i]) : i \in DOMAIN x.children}

\* compileGlobal added the global to the module as immutable
addedImmutable(g) == moduleGlobals[g] > 0 /\ ~moduleGlobalMutable[g]

\* g = value, or g++, was compiled (the value of g++ is a block around the assignment)
GlobalAssigned(g) ==
  /\ lastLowering.op = "compileExpression"
  /\ \/ /\ lastLowering.input.expression.kind = "BINARY"
        /\ lastLowering.input.expression.target = "="
        /\ lastLowering.input.expression.args[1] = GlobalRef(g)
     \/ lastLowering.input.expression = PostfixE(GlobalRef(g))

(***************************************************************************)
(* C30: immutable globals are never written.  A global that compileGlobal  *)
(* adds to the module as immutable (declared const, or static readonly,    *)
(* with an initializer that is or precomputes to a constant) is never the  *)
(* target of an emitted set_global; every assignment or compound           *)
(* assignment to such a global emits a diagnostic and returns unreachable. *)
(***************************************************************************)
ImmutableGlobalsNeverSet ==
  lastLowering.op \in FunctionOps =>
    /\ \A g \in setGlobalTargets(lastLowering.result.x) : ~addedImmutable(g)
    /\ \A g \in GlobalNames :
         (GlobalAssigned(g) /\ addedImmutable(g)) =>
           /\ lastLowering.result.f.errors # <<>>
           /\ "Unreachable" \in nodeOps(lastLowering.result.x)

\* the claim holds of the globals declared const
ConstGlobalsNeverSet ==
  lastLowering.op \in FunctionOps =>
    /\ \A g \in setGlobalTargets(lastLowering.result.x) : "CONST" \notin GlobalDecl(g).flags
    /\ \A g \in GlobalNames :
         (GlobalAssigned(g) /\ addedImmutable(g) /\ "CONST" \in GlobalDecl(g).flags) =>
           /\ lastLowering.result.f.errors # <<>>
           /\ "Unreachable" \in nodeOps(lastLowering.result.x)

====
